---- MODULE Spec2Model ----
(***************************************************************************)
(* A model of the Graine patch pipeline of the singular repository:        *)
(*   - the multi-objective selector      (graine/evolver/select.py)        *)
(*   - the patch DSL                     (graine/evolver/dsl.py)           *)
(*   - the kernel verifier and executor  (graine/kernel/*.py)              *)
(*   - the hash-chained audit logger     (graine/kernel/logger.py)         *)
(*   - the meta policy and its mutation  (graine/meta/dsl.py, evolve.py)   *)
(*   - the orchestrator                  (graine/evolver/main.py)          *)
(*   - the snapshot replay               (graine/meta/phantom.py)          *)
(*   - the process sandbox               (singular/life/sandbox.py)        *)
(*   - the run logger                    (singular/runs/logger.py)         *)
(* Each subsystem has its own specification over the shared variables; the *)
(* variables of the other subsystems stay at their idle values.            *)
(***************************************************************************)
EXTENDS Integers, Sequences, FiniteSets, TLC

VARIABLES
    \* ---- selector (graine/evolver/select.py)
    candidates,     \* select's `candidates` argument: a list of Candidate
    prev_best,      \* select's `prev_best` argument: a Candidate or None
    sel_pc,         \* "ready" | "done" | "compare" | "compared"
    chosen,         \* the value select returned: a candidate id or None
    sel_log,        \* the logger.info records select emitted, in order
    dom_matrix,     \* dominates(a, b) for every pair of `candidates`
    \* ---- patch DSL (graine/evolver/dsl.py)
    dsl_input,      \* the patch fields given to Patch.from_dict / Patch(...)
    dsl_patch,      \* the Patch object, once built
    dsl_pc,         \* "input" | "built" | "rejected" | "validated"
    dsl_result,     \* outcome of the last from_dict / validate call
    \* ---- kernel (graine/kernel/__init__.py, verifier.py, interpreter.py)
    zones,          \* load_zones()["targets"]: the zone registry
    patch,          \* the patch dict handed to run_variant
    run_pc,         \* "call" | "loop" | "returned" | "raised"
    run_error,      \* the exception that left run_variant, or None
    run_limits,     \* op_limit / cpu_limit / ram_limit of the attempt
    executed,       \* run_variant's `executed` counter
    invoked,        \* how many operator bodies were called (func(op))
    limits,         \* the module-level _LimitManager instance
    kernel_log,     \* events handed to JsonlLogger.log, in order
    attempt,        \* number of the run_variant call in this process
    \* ---- audit logger (graine/kernel/logger.py)
    audit_file,     \* the log file: whether it exists, and its lines
    loggers,        \* the JsonlLogger instances: lifecycle and prev_hash
    tamper,         \* what was done to the file behind the logger's back
    \* ---- meta policy (graine/meta/dsl.py, evolve.py)
    meta_spec,      \* the MetaSpec handed to validate / propose_mutation
    meta_pc,        \* "input" | "validated" | "proposed"
    meta_result,    \* "ok" or the message of the MetaValidationError
    meta_proposal,  \* the MetaSpec propose_mutation built
    \* ---- orchestrator (graine/evolver/main.py)
    generations,    \* run's `generations` argument
    adopt_every,    \* run's `adopt_every` argument
    meta0,          \* run's `meta` argument, as passed
    meta,           \* the policy in force (run's `meta` variable)
    gen,            \* generations completed or entered so far
    orch_pc,        \* "run" | "returned" | "raised"
    orch_error,     \* message of the exception that left run
    orch_trace,     \* effects of run, in order: select, log records, snapshots
    snapshots,      \* gen_NNNN.json files: generation, len(history), meta
    proposals,      \* the meta proposals made, each with its outcome
    orch_zones,     \* configs/zones.yaml as propose_mutations reads it
    scored,         \* per generation, the candidates given objectives
    \* ---- snapshot replay (graine/meta/phantom.py)
    snapshot_dir,   \* the *.json files of the directory: name -> content
    replay_k,       \* replay_snapshots' argument k
    replay_pc,      \* "loop" | "returned" | "raised"
    replay_read,    \* names of the files read so far, in order
    replay_totals,  \* total_err and total_cost
    replay_error,   \* the exception that left replay_snapshots
    replay_result,  \* the mapping returned
    \* ---- process sandbox (singular/life/sandbox.py)
    sb_code,        \* the code submitted to run
    sb_timeout,     \* run's timeout, in tenths of a second
    sb_pc,          \* position of the parent inside run
    child_pc,       \* position of the child process
    child_end,      \* how the child ended
    reaped,         \* whether a join has collected the dead child
    feeder,         \* bytes put on the queue, not yet written to the pipe
    pipe,           \* bytes written to the pipe, not yet read
    pipe_msg,       \* the object those bytes carry
    sb_outcome,     \* what run returned or raised
    \* ---- run logger (singular/runs/logger.py)
    rl_tmp,         \* <run_id>-<timestamp>.jsonl.tmp of the run
    rl_final,       \* <run_id>-<timestamp>.jsonl of the run
    rl_state,       \* "none" | "open" | "crashed" | "closed"
    rl_sessions,    \* RunLogger objects created for the run so far
    rl_closes,      \* calls of close on the last of them
    rl_logged,      \* records passed to log, over all sessions
    rl_lost,        \* contents of the files of the run that retention removed
    newer_tmps,     \* other runs' .jsonl.tmp files modified after the run's
    newer_logs      \* other runs' .jsonl files modified after the run's

selVars == <<candidates, prev_best, sel_pc, chosen, sel_log, dom_matrix>>
dslVars == <<dsl_input, dsl_patch, dsl_pc, dsl_result>>
kerVars == <<zones, patch, run_pc, run_error, run_limits, executed, invoked,
             limits, kernel_log, attempt>>
logVars == <<audit_file, loggers, tamper>>
metaVars == <<meta_spec, meta_pc, meta_result, meta_proposal>>
orchVars == <<generations, adopt_every, meta0, meta, gen, orch_pc, orch_error,
              orch_trace, snapshots, proposals, orch_zones, scored>>
replayVars == <<snapshot_dir, replay_k, replay_pc, replay_read, replay_totals,
                replay_error, replay_result>>
sbVars == <<sb_code, sb_timeout, sb_pc, child_pc, child_end, reaped, feeder, pipe,
            pipe_msg, sb_outcome>>
rlVars == <<rl_tmp, rl_final, rl_state, rl_sessions, rl_closes, rl_logged, rl_lost,
            newer_tmps, newer_logs>>
vars == <<selVars, dslVars, kerVars, logVars, metaVars, orchVars, replayVars, sbVars, rlVars>>

(***************************************************************************)
(* Generic helpers                                                         *)
(***************************************************************************)
Range(s) == {s[i] : i \in 1..Len(s)}

SeqsUpTo(S, n) == UNION {[1..k -> S] : k \in 0..n}

Min2(a, b) == IF a <= b THEN a ELSE b

RECURSIVE Concat(_)
Concat(ss) == IF ss = <<>> THEN <<>> ELSE Head(ss) \o Concat(Tail(ss))

CountIn(s, P(_)) == Cardinality({i \in 1..Len(s) : P(s[i])})

(***************************************************************************)
(* Multi-objective selector: graine/evolver/select.py                      *)
(***************************************************************************)
\* Most candidates one generation hands to select.
MaxCands == 3

\* The objective names, in the key order of every candidate's objectives
\* dict (main.py builds {"err": ..., "cost": ...}).
ObjectiveNames == <<"err", "cost">>

\* Objective values drawn for the selector's inputs.
ObjVals == {0, 1}

\* `thresholds` of a Candidate: None (the empty function here) or a dict of
\* named boolean gates.
NoThresholds == <<>>

ThresholdChoices ==
    { NoThresholds,
      [tests |-> TRUE, perf |-> TRUE],
      [tests |-> TRUE, perf |-> FALSE] }

ObjectiveMaps(V) == [Range(ObjectiveNames) -> V]

\* Object identity of a Candidate (the dataclass is eq=False): the i-th
\* element of `candidates` is object i, the previous elite is object 0.
ELITE_ID == 0
NONE_ID == 0 - 1

Candidate(id, objectives, thresholds) ==
    [id |-> id, objectives |-> objectives, thresholds |-> thresholds]

NoCandidate == Candidate(NONE_ID, <<>>, NoThresholds)

IsNone(c) == c.id = NONE_ID

meets_thresholds_always(c) == TRUE

meets_thresholds(c) ==
    IF DOMAIN c.thresholds = {} THEN TRUE
    ELSE \A k \in DOMAIN c.thresholds : c.thresholds[k]

dominates_any_le(a, b) ==
    LET better_or_equal ==
            \A m \in DOMAIN a.objectives : a.objectives[m] <= b.objectives[m]
        strictly_better ==
            \E m \in DOMAIN a.objectives : a.objectives[m] <= b.objectives[m]
    IN better_or_equal /\ strictly_better

dominates(a, b) ==
    LET better_or_equal ==
            \A m \in DOMAIN a.objectives : a.objectives[m] <= b.objectives[m]
        strictly_better ==
            \E m \in DOMAIN a.objectives : a.objectives[m] < b.objectives[m]
    IN better_or_equal /\ strictly_better

\* ---- fast_non_dominated_sort
Ids(population) == {population[i].id : i \in 1..Len(population)}

\* S[p]: the members p dominates, in population order.
DominatedBy(population, p) ==
    SelectSeq(population, LAMBDA q : q.id # p.id /\ dominates(p, q))

\* n[p]: how many members dominate p (the elif branch of the inner loop).
DominationCount(population, p) ==
    Cardinality({i \in 1..Len(population) :
                    /\ population[i].id # p.id
                    /\ ~dominates(p, population[i])
                    /\ dominates(population[i], p)})

\* The inner loops over fronts[i] and S[p]: qs is the members visited, in
\* order; each visit decrements n[q] and appends q when it reaches zero.
RECURSIVE PeelFront(_, _, _)
PeelFront(qs, n, next_front) ==
    IF qs = <<>> THEN [n |-> n, next_front |-> next_front]
    ELSE LET q == Head(qs)
             n2 == [n EXCEPT ![q.id] = @ - 1]
         IN PeelFront(Tail(qs), n2,
                      IF n2[q.id] = 0 THEN Append(next_front, q)
                      ELSE next_front)

\* The while loop: i is the Python index of the front being peeled.
RECURSIVE SortLoop(_, _, _, _)
SortLoop(population, fronts, n, i) ==
    LET cur == fronts[i + 1] IN
    IF cur = <<>> THEN fronts
    ELSE LET qs == Concat([k \in 1..Len(cur) |-> DominatedBy(population, cur[k])])
             r == PeelFront(qs, n, <<>>)
         IN SortLoop(population, Append(fronts, r.next_front), r.n, i + 1)

fast_non_dominated_sort(population) ==
    LET n == [id \in Ids(population) |->
                 DominationCount(population,
                     CHOOSE p \in Range(population) : p.id = id)]
        current_front == SelectSeq(population, LAMBDA p : n[p.id] = 0)
        fronts == SortLoop(population, <<current_front>>, n, 0)
    IN SubSeq(fronts, 1, Len(fronts) - 1)

\* ---- crowding_distance
\* A distance: float("inf"), or the exact value num/den of the float sum.
DistZero == [inf |-> FALSE, num |-> 0, den |-> 1]
DistInf == [inf |-> TRUE, num |-> 0, den |-> 1]

DistAdd(d, num, den) ==
    IF d.inf THEN d
    ELSE [inf |-> FALSE, num |-> d.num * den + num * d.den, den |-> d.den * den]

DistLess(a, b) ==
    IF a.inf THEN FALSE
    ELSE IF b.inf THEN TRUE
    ELSE a.num * b.den < b.num * a.den

\* list.sort(key=lambda c: c.objectives[m]): stable, ascending.
RECURSIVE InsertByObjective(_, _, _)
InsertByObjective(sorted, x, m) ==
    IF sorted = <<>> THEN <<x>>
    ELSE IF Head(sorted).objectives[m] <= x.objectives[m]
         THEN <<Head(sorted)>> \o InsertByObjective(Tail(sorted), x, m)
         ELSE <<x>> \o sorted

RECURSIVE SortByObjectiveFrom(_, _, _)
SortByObjectiveFrom(rest, sorted, m) ==
    IF rest = <<>> THEN sorted
    ELSE SortByObjectiveFrom(Tail(rest), InsertByObjective(sorted, Head(rest), m), m)

SortByObjective(front, m) == SortByObjectiveFrom(front, <<>>, m)

\* list.sort(key=lambda c: cd[c], reverse=True): stable, descending.
RECURSIVE InsertByDistance(_, _, _)
InsertByDistance(sorted, x, cd) ==
    IF sorted = <<>> THEN <<x>>
    ELSE IF ~DistLess(cd[Head(sorted).id], cd[x.id])
         THEN <<Head(sorted)>> \o InsertByDistance(Tail(sorted), x, cd)
         ELSE <<x>> \o sorted

RECURSIVE SortByDistanceFrom(_, _, _)
SortByDistanceFrom(rest, sorted, cd) ==
    IF rest = <<>> THEN sorted
    ELSE SortByDistanceFrom(Tail(rest), InsertByDistance(sorted, Head(rest), cd), cd)

SortByDistanceDesc(front, cd) == SortByDistanceFrom(front, <<>>, cd)

\* One pass of the `for m in objectives` loop. `front` is sorted in place,
\* so the caller's list is reordered too.
CrowdingPass(front, distance, m) ==
    LET f == SortByObjective(front, m)
        len == Len(f)
        min_m == f[1].objectives[m]
        max_m == f[len].objectives[m]
        denom == IF max_m - min_m # 0 THEN max_m - min_m ELSE 1
        bounded == [distance EXCEPT ![f[1].id] = DistInf, ![f[len].id] = DistInf]
        Pos(id) == CHOOSE i \in 1..len : f[i].id = id
    IN [front |-> f,
        distance |->
            [id \in DOMAIN distance |->
                IF Pos(id) \in 2..(len - 1)
                THEN DistAdd(bounded[id],
                             f[Pos(id) + 1].objectives[m] - f[Pos(id) - 1].objectives[m],
                             denom)
                ELSE bounded[id]]]

RECURSIVE CrowdingLoop(_, _, _)
CrowdingLoop(front, distance, objectives) ==
    IF objectives = <<>> THEN [front |-> front, distance |-> distance]
    ELSE LET r == CrowdingPass(front, distance, Head(objectives))
         IN CrowdingLoop(r.front, r.distance, Tail(objectives))

\* Returns the distances and the order the argument list is left in.
crowding_distance(front) ==
    LET distance == [id \in Ids(front) |-> DistZero] IN
    IF front = <<>> THEN [front |-> front, distance |-> distance]
    ELSE CrowdingLoop(front, distance, ObjectiveNames)

\* ---- select
LogEntry(kind, c, reason) == [kind |-> kind, who |-> c.id, reason |-> reason]

Feasible(cands) == SelectSeq(cands, meets_thresholds)

\* "failed thresholds" records of the candidates loop (lines 119-123).
GateLog(cands) ==
    LET failed == SelectSeq(cands, LAMBDA c : ~meets_thresholds(c))
    IN [i \in 1..Len(failed) |-> LogEntry("Rejected", failed[i], "failed thresholds")]

\* elite = prev_best if prev_best and prev_best.meets_thresholds() else None
EliteOf(prev) == IF ~IsNone(prev) /\ meets_thresholds(prev) THEN prev ELSE NoCandidate

EliteGateLog(prev) ==
    IF ~IsNone(prev) /\ IsNone(EliteOf(prev))
    THEN <<LogEntry("Rejected", prev, "failed thresholds")>>
    ELSE <<>>

RejectReason(winner, cand) ==
    IF dominates(winner, cand) THEN "dominated by accepted patch" ELSE "crowded out"

RetainsElite_whenever_present(feasible, elite) == ~IsNone(elite)

\* if elite and not any(dominates(c, elite) for c in feasible)
RetainsElite(feasible, elite) ==
    /\ ~IsNone(elite)
    /\ ~\E i \in 1..Len(feasible) : dominates(feasible[i], elite)

\* The records of the conservative-elitism branch (lines 135-142).
RetainLog(feasible, elite) ==
    <<LogEntry("Accepted", elite, "")>>
    \o [i \in 1..Len(feasible) |->
           LogEntry("Rejected", feasible[i], RejectReason(elite, feasible[i]))]

\* Lines 145-150: the first front, its crowding distances (which re-order
\* first_front), the stable descending sort, and its head.
ChooseFromFront(feasible, elite) ==
    LET population == feasible \o (IF ~IsNone(elite) THEN <<elite>> ELSE <<>>)
        fronts == fast_non_dominated_sort(population)
        first_front == fronts[1]
        r == crowding_distance(first_front)
        ranked == SortByDistanceDesc(r.front, r.distance)
    IN ranked[1]

OutcomeLog_without_elite(feasible, elite, winner) ==
    [i \in 1..Len(feasible) |->
        IF feasible[i].id = winner.id
        THEN LogEntry("Accepted", feasible[i], "")
        ELSE LogEntry("Rejected", feasible[i], RejectReason(winner, feasible[i]))]

\* The records of the NSGA-II branch (lines 153-172).
OutcomeLog(feasible, elite, winner) ==
    [i \in 1..Len(feasible) |->
        IF feasible[i].id = winner.id
        THEN LogEntry("Accepted", feasible[i], "")
        ELSE LogEntry("Rejected", feasible[i], RejectReason(winner, feasible[i]))]
    \o (IF ~IsNone(elite)
        THEN IF winner.id = elite.id
             THEN <<LogEntry("Accepted", elite, "retained as elite")>>
             ELSE <<LogEntry("Rejected", elite, RejectReason(winner, elite))>>
        ELSE <<>>)

\* select(candidates, prev_best): the returned candidate (NoCandidate for
\* None) and the records logged, in order.
select(cands, prev) ==
    LET feasible == Feasible(cands)
        elite == EliteOf(prev)
        gate == GateLog(cands) \o EliteGateLog(prev)
    IN IF feasible = <<>> /\ IsNone(elite)
       THEN [chosen |-> NoCandidate, log |-> gate]
       ELSE IF RetainsElite(feasible, elite)
       THEN [chosen |-> elite, log |-> gate \o RetainLog(feasible, elite)]
       ELSE LET winner == ChooseFromFront(feasible, elite)
            IN [chosen |-> winner,
                log |-> gate \o OutcomeLog(feasible, elite, winner)]

\* ---- idle values of the selector's variables
SelIdle ==
    /\ candidates = <<>>
    /\ prev_best = NoCandidate
    /\ sel_pc = "idle"
    /\ chosen = NONE_ID
    /\ sel_log = <<>>
    /\ dom_matrix = <<>>

\* Lists of at most n candidates; the i-th element is object i.
CandidateLists(n, V, T) ==
    UNION {{[i \in 1..k |-> Candidate(i, o[i], t[i])] :
                o \in [1..k -> ObjectiveMaps(V)], t \in [1..k -> T]} :
           k \in 0..n}

EliteChoices(V, T) ==
    {NoCandidate} \cup {Candidate(ELITE_ID, o, t) : o \in ObjectiveMaps(V), t \in T}

InitSelect ==
    /\ candidates \in CandidateLists(MaxCands, ObjVals, ThresholdChoices)
    /\ prev_best \in EliteChoices(ObjVals, ThresholdChoices)
    /\ sel_pc = "ready"
    /\ chosen = NONE_ID
    /\ sel_log = <<>>
    /\ dom_matrix = <<>>

\* One call of select(candidates, prev_best).
Select ==
    /\ sel_pc = "ready"
    /\ LET r == select(candidates, prev_best)
       IN /\ chosen' = r.chosen.id
          /\ sel_log' = r.log
    /\ sel_pc' = "done"
    /\ UNCHANGED <<candidates, prev_best, dom_matrix>>

\* ---- the dominance relation on its own
DomVals == {0, 1, 2}

InitDominates ==
    /\ candidates \in [1..3 -> {Candidate(0, o, NoThresholds) : o \in ObjectiveMaps(DomVals)}]
    /\ prev_best = NoCandidate
    /\ sel_pc = "compare"
    /\ chosen = NONE_ID
    /\ sel_log = <<>>
    /\ dom_matrix = <<>>

\* dominates(a, b) evaluated for every ordered pair of the three inputs.
Dominance ==
    /\ sel_pc = "compare"
    /\ dom_matrix' = [i \in 1..3 |-> [j \in 1..3 |->
                         dominates(candidates[i], candidates[j])]]
    /\ sel_pc' = "compared"
    /\ UNCHANGED <<candidates, prev_best, chosen, sel_log>>

(***************************************************************************)
(* Patch DSL: graine/evolver/dsl.py                                        *)
(***************************************************************************)
\* Most operations in a patch handed to the DSL.
MaxDslOps == 2

\* OPERATOR_NAMES: the keys of configs/operators.yaml, which are the six
\* names of OP_CLASSES (tests/test_dsl.py accepts each of them).
OPERATOR_NAMES ==
    {"CONST_TUNE", "EQ_REWRITE", "INLINE", "EXTRACT", "DEADCODE_ELIM", "MICRO_MEMO"}

THETA_DIFF_LIMIT == 10
CYCLOMATIC_LIMIT == 10

\* Operator names, numeric fields and purity flags drawn for DSL inputs.
DslOpNames == OPERATOR_NAMES \cup {"BAD_OP"}
ThetaDiffChoices == {0, THETA_DIFF_LIMIT, THETA_DIFF_LIMIT + 1}
CyclomaticChoices == {0, CYCLOMATIC_LIMIT, CYCLOMATIC_LIMIT + 1, 50}

\* The fields of a Patch that from_dict and validate read (the untyped dict
\* carries the same keys).
DslPatch(ops, theta_diff, purity, cyclomatic) ==
    [ops |-> ops, theta_diff |-> theta_diff, purity |-> purity,
     cyclomatic |-> cyclomatic]

NoPatch == DslPatch(<<>>, 0, TRUE, 0)

\* Operation.from_dict on each element, in order: the first unknown name
\* raises DSLValidationError.
OperationsFromDict(names) ==
    IF \E i \in 1..Len(names) : names[i] \notin OPERATOR_NAMES
    THEN "Unknown operator"
    ELSE "ok"

\* Patch.validate: the first violated limit raises, otherwise True.
validate(p) ==
    IF p.theta_diff > THETA_DIFF_LIMIT THEN "theta_diff exceeds limit"
    ELSE IF ~p.purity THEN "Patch must be pure"
    ELSE IF p.cyclomatic > CYCLOMATIC_LIMIT THEN "Cyclomatic complexity exceeds limit"
    ELSE "ok"

InitDsl ==
    /\ dsl_input \in {DslPatch(ops, t, pu, c) :
                         ops \in SeqsUpTo(DslOpNames, MaxDslOps),
                         t \in ThetaDiffChoices,
                         pu \in BOOLEAN,
                         c \in CyclomaticChoices}
    /\ dsl_patch = NoPatch
    /\ dsl_pc = "input"
    /\ dsl_result = "none"

\* Patch.from_dict(data)
FromDict ==
    /\ dsl_pc = "input"
    /\ LET r == OperationsFromDict(dsl_input.ops)
       IN IF r = "ok"
          THEN /\ dsl_patch' = dsl_input
               /\ dsl_pc' = "built"
               /\ dsl_result' = "none"
          ELSE /\ dsl_patch' = NoPatch
               /\ dsl_pc' = "rejected"
               /\ dsl_result' = r
    /\ UNCHANGED dsl_input

\* Patch(target, ops=[Operation(name=...), ...], theta_diff, purity,
\* cyclomatic): the dataclass constructors check nothing.
Construct ==
    /\ dsl_pc = "input"
    /\ dsl_patch' = dsl_input
    /\ dsl_pc' = "built"
    /\ dsl_result' = "none"
    /\ UNCHANGED dsl_input

\* patch.validate()
Validate ==
    /\ dsl_pc = "built"
    /\ dsl_result' = validate(dsl_patch)
    /\ dsl_pc' = "validated"
    /\ UNCHANGED <<dsl_input, dsl_patch>>

(***************************************************************************)
(* Kernel data: JSON-like values of a patch dict                           *)
(***************************************************************************)
\* A Python value inside a patch: a str (a sequence of text tokens), a
\* number, a dict (its items in insertion order) or a list.
Str(tokens) == [t |-> "str", s |-> tokens]
Num(n) == [t |-> "num", n |-> n]
Dict(items) == [t |-> "dict", items |-> items]
List(elems) == [t |-> "list", elems |-> elems]
Item(k, v) == [k |-> k, v |-> v]

HasKey(d, key) == \E i \in 1..Len(d.items) : d.items[i].k = key

\* d[key] for a key the dict holds.
Get(d, key) == d.items[CHOOSE i \in 1..Len(d.items) : d.items[i].k = key].v

\* An optional entry of the limits dict: absent, or one number.
Absent == <<>>
Some(n) == <<n>>

(***************************************************************************)
(* Static scanner: graine/kernel/verifier.py                               *)
(***************************************************************************)
\* Text is a sequence of tokens. A token is a run of word characters
\* ("import", "socket", "x"), whitespace ("ws"), punctuation (";"), a path
\* prefix ("runs/") or the text of an open() call with its quoted path.
WordTokens == {"import", "IMPORT", "from", "socket", "ctypes", "subprocess",
               "os", "x", "INLINE", "CONST_TUNE", "EQ_REWRITE", "EXTRACT",
               "DEADCODE_ELIM", "MICRO_MEMO", "BAD_OP"}

\* Tokens whose first / last character is a word character (for \b).
StartsWord(tok) == tok \in WordTokens \cup {"runs/", "target/", "open('evil.txt'", "open('runs/a'"}
EndsWord(tok) == tok \in WordTokens

\* str.lower()
LowerTok(tok) == IF tok = "IMPORT" THEN "import" ELSE tok
Lower(text) == [i \in 1..Len(text) |-> LowerTok(text[i])]

\* The module alternatives of FORBIDDEN_IMPORT_RE that occur in the inputs.
ForbiddenModules == {"socket", "ctypes", "subprocess"}

\* FORBIDDEN_IMPORT_RE.search(text): \b(import|from)\s+(module)\b
ForbiddenImportSearch(text) ==
    \E i, j \in 1..Len(text) :
        /\ i + 1 < j
        /\ text[i] \in {"import", "from"}
        /\ i > 1 => ~EndsWord(text[i - 1])
        /\ \A k \in (i + 1)..(j - 1) : text[k] = "ws"
        /\ text[j] \in ForbiddenModules
        /\ j < Len(text) => ~StartsWord(text[j + 1])

\* _is_allowed_path(path): path starts with "runs/" or "target/".
ALLOWED_PATH_PREFIXES == {"runs/", "target/"}

IsAllowedPath(text) == text # <<>> /\ text[1] \in ALLOWED_PATH_PREFIXES

\* OPEN_RE.finditer(text) with a path outside the allowed directories.
OpenOutside(text) == \E i \in 1..Len(text) : text[i] = "open('evil.txt'"

\* The checks on one string value under key `key` (lines 169-177).
ScanString(key, value) ==
    LET text == Lower(value) IN
    IF ForbiddenImportSearch(text) THEN "forbidden import detected"
    ELSE IF OpenOutside(text) THEN "I/O outside allowed directories"
    ELSE IF key \in {"path", "file"} /\ ~IsAllowedPath(value)
         THEN "I/O outside allowed directories"
    ELSE "ok"

\* _check_forbidden_content(ops) over a list of dicts: the first violation
\* in iteration order is raised. A str is scanned, a dict is walked, and of
\* a list only the dict elements are walked.
RECURSIVE CheckForbiddenContent(_)
RECURSIVE ScanItems(_)
ScanItems(items) ==
    IF items = <<>> THEN "ok"
    ELSE LET key == Head(items).k
             value == Head(items).v
             r == IF value.t = "str" THEN ScanString(key, value.s)
                  ELSE IF value.t = "dict" THEN CheckForbiddenContent(<<value>>)
                  ELSE IF value.t = "list"
                       THEN CheckForbiddenContent(
                                SelectSeq(value.elems, LAMBDA v : v.t = "dict"))
                  ELSE "ok"
         IN IF r # "ok" THEN r ELSE ScanItems(Tail(items))

CheckForbiddenContent(ops) ==
    IF ops = <<>> THEN "ok"
    ELSE LET r == ScanItems(Head(ops).items)
         IN IF r # "ok" THEN r ELSE CheckForbiddenContent(Tail(ops))

(***************************************************************************)
(* Verifier: graine/kernel/verifier.py                                     *)
(***************************************************************************)
\* Constitutional limits. CPU_LIMIT (1.0 s) and every duration of the model
\* are in tenths of a second.
DIFF_LIMIT == 12
OPS_LIMIT == 1000
CPU_LIMIT == 10
RAM_LIMIT == 1024 * 1024 * 1024

\* interpreter.ALLOWED_OPS: the keys of OPERATIONS.
ALLOWED_OPS ==
    {"CONST_TUNE", "EQ_REWRITE", "INLINE", "EXTRACT", "DEADCODE_ELIM", "MICRO_MEMO"}

Zone(file, function, operators) ==
    [file |-> file, function |-> function, operators |-> operators]

Target(file, function) == [file |-> file, function |-> function]

Limits(diff_max, ops, ops_max, time_max, cpu, ram) ==
    [diff_max |-> diff_max, ops |-> ops, ops_max |-> ops_max,
     time_max |-> time_max, cpu |-> cpu, ram |-> ram]

\* patch.get("limits", {}) of a patch that carries no limits.
NoLimits == Limits(Absent, Absent, Absent, Absent, Absent, Absent)

\* A patch dict as run_variant receives it.  theta_diff, purity and
\* cyclomatic are the keys Patch.from_dict reads (evolver/dsl.py lines
\* 113-121); a dict may leave them out.
PatchDict(type, target, ops, lim) ==
    [type |-> type, target |-> target, ops |-> ops, limits |-> lim,
     theta_diff |-> Absent, purity |-> Absent, cyclomatic |-> Absent]

\* The same dict with its theta_diff, purity and cyclomatic keys set.
WithDslKeys(p, theta_diff, purity, cyclomatic) ==
    [p EXCEPT !.theta_diff = Some(theta_diff), !.purity = Some(purity),
              !.cyclomatic = Some(cyclomatic)]

NoPatchDict == PatchDict("Patch", Target("", ""), <<>>, NoLimits)

\* _validate_schema on the items of patch.ops: each must be an object that
\* holds "op"; the first offending item raises.
RECURSIVE ValidateOpsItems(_)
ValidateOpsItems(ops) ==
    IF ops = <<>> THEN "ok"
    ELSE IF Head(ops).t # "dict" THEN "patch.ops[i] must be an object"
    ELSE IF ~HasKey(Head(ops), "op") THEN "patch.ops[i] missing required field 'op'"
    ELSE ValidateOpsItems(Tail(ops))

\* _validate_schema(patch, PATCH_SCHEMA, "patch") for a dict that holds
\* type, target {file, function} and a list ops.
ValidateSchema(p) ==
    IF p.type # "Patch" THEN "patch.type must be Patch"
    ELSE ValidateOpsItems(p.ops)

\* any(z["file"] == target["file"] and z["function"] == target["function"])
TargetWhitelisted(target, zs) ==
    \E i \in 1..Len(zs) :
        zs[i].file = target.file /\ zs[i].function = target.function

\* The loop over ops (lines 319-329): the first offending op raises.
RECURSIVE CheckOps(_)
CheckOps(ops) ==
    IF ops = <<>> THEN "ok"
    ELSE LET op == Head(ops)
             name == Get(op, "op").s[1]
         IN IF name \notin ALLOWED_OPS THEN "operator not allowed"
            ELSE IF name = "CONST_TUNE" /\ ~(HasKey(op, "delta") /\ HasKey(op, "bounds"))
                 THEN "CONST_TUNE requires delta and bounds"
            ELSE IF /\ name = "CONST_TUNE"
                    /\ ~(/\ Get(op, "bounds").elems[1].n <= Get(op, "delta").n
                         /\ Get(op, "delta").n <= Get(op, "bounds").elems[2].n)
                 THEN "delta outside bounds"
            ELSE CheckOps(Tail(ops))

\* limits.get(key, 0)
GetOr0(entry) == IF entry = Absent THEN 0 ELSE entry[1]

CheckLimits_ignoring_ops(lim) ==
    LET diff_max == GetOr0(lim.diff_max)
        ops_max == GetOr0(lim.ops_max)
        time_max == GetOr0(lim.time_max)
        cpu_limit == GetOr0(lim.cpu)
    IN IF diff_max > DIFF_LIMIT THEN "diff_max exceeds limit"
       ELSE IF ops_max # 0 /\ ops_max > OPS_LIMIT THEN "ops exceeds limit"
       ELSE IF time_max # 0 /\ time_max > CPU_LIMIT THEN "time_max exceeds limit"
       ELSE IF cpu_limit # 0 /\ cpu_limit > CPU_LIMIT THEN "cpu exceeds limit"
       ELSE IF lim.ram # Absent /\ lim.ram[1] > RAM_LIMIT THEN "ram exceeds limit"
       ELSE "ok"

\* The limit checks (lines 333-352).
CheckLimits(lim) ==
    LET diff_max == GetOr0(lim.diff_max)
        ops_max == IF lim.ops # Absent THEN lim.ops[1] ELSE GetOr0(lim.ops_max)
        time_max == GetOr0(lim.time_max)
        cpu_limit == GetOr0(lim.cpu)
    IN IF diff_max > DIFF_LIMIT THEN "diff_max exceeds limit"
       ELSE IF ops_max # 0 /\ ops_max > OPS_LIMIT THEN "ops exceeds limit"
       ELSE IF time_max # 0 /\ time_max > CPU_LIMIT THEN "time_max exceeds limit"
       ELSE IF cpu_limit # 0 /\ cpu_limit > CPU_LIMIT THEN "cpu exceeds limit"
       ELSE IF lim.ram # Absent /\ lim.ram[1] > RAM_LIMIT THEN "ram exceeds limit"
       ELSE "ok"

\* The checks of verify_patch that follow the target check (lines 315-352).
VerifyOpsAndLimits(p) ==
    IF p.ops = <<>> THEN "ops must be a non-empty list"
    ELSE IF CheckOps(p.ops) # "ok" THEN CheckOps(p.ops)
    ELSE IF CheckForbiddenContent(p.ops) # "ok" THEN CheckForbiddenContent(p.ops)
    ELSE CheckLimits(p.limits)

verify_patch_target_last(p, zs) ==
    IF ValidateSchema(p) # "ok" THEN ValidateSchema(p)
    ELSE IF VerifyOpsAndLimits(p) # "ok" THEN VerifyOpsAndLimits(p)
    ELSE IF ~TargetWhitelisted(p.target, zs) THEN "target not whitelisted"
    ELSE "ok"

\* verify_patch(patch) against the zones load_zones() returns: "ok", or the
\* message of the VerificationError raised, without the operator name, item
\* index or number that the code interpolates into it.
verify_patch(p, zs) ==
    IF ValidateSchema(p) # "ok" THEN ValidateSchema(p)
    ELSE IF ~TargetWhitelisted(p.target, zs) THEN "target not whitelisted"
    ELSE VerifyOpsAndLimits(p)

(***************************************************************************)
(* Executor and run_variant: graine/kernel/interpreter.py, __init__.py     *)
(***************************************************************************)
\* Most attempts made one after another in one process.
MaxAttempts == 2

\* _LimitManager.__init__: the state of the module-level `limits` object.
\* Nothing in the repository calls limits.start.
LimitManagerInit == [max_ops |-> 0, mem_limit |-> 0, ops |-> 0]

\* _LimitManager.tick with the resident set size read from the OS: the
\* tracker after it, and "ok" or the message of the RuntimeError raised.
tick(l, rss) ==
    LET after == [l EXCEPT !.ops = @ + 1]
    IN [limits |-> after,
        result |-> IF after.ops > after.max_ops THEN "operation count exceeded"
                   ELSE IF rss > after.mem_limit THEN "RAM limit exceeded"
                   ELSE "ok"]

\* DEFAULT_LIMITS = {"cpu": 1.0, "ram": None, "ops": 1000}, overridden by
\* the patch's own limits (line 24).
DEFAULT_LIMITS == [cpu |-> CPU_LIMIT, ram |-> Absent, ops |-> OPS_LIMIT]

MergedLimits(lim) ==
    [cpu |-> IF lim.cpu # Absent THEN lim.cpu[1] ELSE DEFAULT_LIMITS.cpu,
     ram |-> IF lim.ram # Absent THEN lim.ram ELSE DEFAULT_LIMITS.ram,
     ops |-> IF lim.ops # Absent THEN lim.ops[1] ELSE DEFAULT_LIMITS.ops]

NoRunLimits == [cpu |-> 0, ram |-> Absent, ops |-> 0]

NoError == [kind |-> "none", reason |-> ""]
Raised(kind, reason) == [kind |-> kind, reason |-> reason]

\* Records handed to JsonlLogger.log (the fields that name the event).
LogEvent(event, type) == [event |-> event, type |-> type]

\* Memory readings (bytes) and elapsed times (tenths of a second) the OS
\* may report to one iteration of the loop.
RssChoices == {0, RAM_LIMIT, RAM_LIMIT + 1}
ElapsedChoices == {0, CPU_LIMIT, CPU_LIMIT + 1}

\* Lines 23-33: verify_patch, then the limits of the attempt and the
\* "start" record.
RunVariantCall ==
    /\ run_pc = "call"
    /\ LET r == verify_patch(patch, zones)
       IN IF r # "ok"
          THEN /\ run_pc' = "raised"
               /\ run_error' = Raised("VerificationError", r)
               /\ UNCHANGED <<run_limits, kernel_log>>
          ELSE /\ run_pc' = "loop"
               /\ run_limits' = MergedLimits(patch.limits)
               /\ kernel_log' = Append(kernel_log, LogEvent("start", ""))
               /\ UNCHANGED run_error
    /\ UNCHANGED <<zones, patch, executed, invoked, limits, attempt>>

\* Lines 34-51: one iteration of `for op in ops` (the op-count check,
\* execute(op) with its tick, the CPU and RAM checks), or, after the last
\* op, the "success" record and the return.
RunVariantStep ==
    /\ run_pc = "loop"
    /\ \E rss \in RssChoices, elapsed \in ElapsedChoices, usage \in RssChoices :
         IF executed = Len(patch.ops)
         THEN /\ kernel_log' = Append(kernel_log, LogEvent("success", ""))
              /\ run_pc' = "returned"
              /\ UNCHANGED <<run_error, executed, invoked, limits>>
         ELSE IF executed >= run_limits.ops
         THEN /\ kernel_log' = Append(kernel_log, LogEvent("error", "op_limit"))
              /\ run_pc' = "raised"
              /\ run_error' = Raised("RuntimeError", "operation count exceeded")
              /\ UNCHANGED <<executed, invoked, limits>>
         ELSE LET t == tick(limits, rss) IN
              /\ invoked' = invoked + 1
              /\ limits' = t.limits
              /\ IF t.result # "ok"
                 THEN /\ run_pc' = "raised"
                      /\ run_error' = Raised("RuntimeError", t.result)
                      /\ UNCHANGED <<executed, kernel_log>>
                 ELSE /\ executed' = executed + 1
                      /\ IF elapsed > run_limits.cpu
                         THEN /\ kernel_log' = Append(kernel_log, LogEvent("error", "cpu_limit"))
                              /\ run_pc' = "raised"
                              /\ run_error' = Raised("RuntimeError", "CPU time limit exceeded")
                         ELSE IF run_limits.ram # Absent /\ usage > run_limits.ram[1]
                         THEN /\ kernel_log' = Append(kernel_log, LogEvent("error", "ram_limit"))
                              /\ run_pc' = "raised"
                              /\ run_error' = Raised("RuntimeError", "RAM limit exceeded")
                         ELSE /\ UNCHANGED <<kernel_log, run_pc, run_error>>
    /\ UNCHANGED <<zones, patch, run_limits, attempt>>

\* ---- inputs of run_variant
\* Most operations in a patch handed to the kernel, and the deepest
\* nesting of a value inside an operation.
MaxOps == 2
MaxDepth == 2

ReduceSum == Target("target/src/algorithms/reduce_sum.py", "reduce_sum")

\* Contents of configs/zones.yaml: the whitelisted target with a short
\* operator list, the same target listed by two zones, a registry with a
\* second zone, and an empty registry.
ZoneConfigs ==
    { <<Zone(ReduceSum.file, ReduceSum.function, <<"CONST_TUNE", "EQ_REWRITE">>)>>,
      <<Zone(ReduceSum.file, ReduceSum.function, <<"CONST_TUNE">>),
        Zone(ReduceSum.file, ReduceSum.function, <<"INLINE">>)>>,
      <<Zone(ReduceSum.file, ReduceSum.function,
             <<"CONST_TUNE", "EQ_REWRITE", "INLINE", "EXTRACT", "DEADCODE_ELIM", "MICRO_MEMO">>),
        Zone("target/src/evaluate.py", "evaluate", <<"CONST_TUNE">>)>>,
      <<>> }

TargetChoices ==
    { ReduceSum,
      Target(ReduceSum.file, "other"),
      Target("dummy.py", "foo") }

OpDict(name, fields) == Dict(<<Item("op", Str(<<name>>))>> \o fields)

ConstTune(delta, lo, hi) ==
    OpDict("CONST_TUNE", <<Item("delta", Num(delta)),
                           Item("bounds", List(<<Num(lo), Num(hi)>>))>>)

ImportSocket == <<"import", "ws", "socket">>

\* Elements of an ops list for the admission checks: well-formed and
\* allowed, out of bounds, incomplete, unknown, malformed, forbidden.
AdmitOps ==
    { ConstTune(0, 0 - 1, 1),
      ConstTune(50, 0 - 1, 1),
      OpDict("CONST_TUNE", <<>>),
      OpDict("EQ_REWRITE", <<Item("rule_id", Str(<<"x">>))>>),
      OpDict("INLINE", <<>>),
      OpDict("MICRO_MEMO", <<>>),
      OpDict("BAD_OP", <<>>),
      Dict(<<>>),
      Str(<<"x">>),
      OpDict("INLINE", <<Item("code", Str(ImportSocket))>>) }

\* Texts of string values handed to the scanner.
StringChoices ==
    { <<"x">>,
      ImportSocket,
      <<"x", ";", "IMPORT", "ws", "ws", "ctypes", ";">>,
      <<"x", "import", "ws", "socket">>,
      <<"import", "ws", "os">>,
      <<"open('evil.txt'">>,
      <<"runs/", "x">> }

\* Values nested at most d deep: a string, a dict holding a value, a list
\* holding a value.
RECURSIVE Values(_)
Values(d) ==
    LET strings == {Str(t) : t \in StringChoices} IN
    IF d = 0 THEN strings
    ELSE strings
         \cup {Dict(<<Item("src", v)>>) : v \in Values(d - 1)}
         \cup {List(<<v>>) : v \in Values(d - 1)}

ScanOps ==
    {OpDict("INLINE", <<Item(k, v)>>) : k \in {"code", "path"}, v \in Values(MaxDepth)}

\* Entries of a patch's limits dict: absent, below, at and above each
\* ceiling.
LimitChoices ==
    { Limits(d, o, om, tm, c, r) :
        d \in {Absent, Some(5), Some(DIFF_LIMIT), Some(DIFF_LIMIT + 1)},
        o \in {Absent, Some(0), Some(1), Some(OPS_LIMIT), Some(OPS_LIMIT + 1)},
        om \in {Absent, Some(2 * OPS_LIMIT)},
        tm \in {Absent, Some(CPU_LIMIT), Some(2 * CPU_LIMIT)},
        c \in {Absent, Some(0), Some(CPU_LIMIT), Some(2 * CPU_LIMIT)},
        r \in {Absent, Some(RAM_LIMIT), Some(RAM_LIMIT + 1)} }

KernelStart ==
    /\ run_pc = "call"
    /\ run_error = NoError
    /\ run_limits = NoRunLimits
    /\ executed = 0
    /\ invoked = 0
    /\ limits = LimitManagerInit
    /\ kernel_log = <<>>
    /\ attempt = 1

\* Patches for the admission checks: every registry, target and short ops
\* list, with no limits declared.
InitAdmission ==
    /\ zones \in ZoneConfigs
    /\ patch \in {PatchDict("Patch", t, ops, NoLimits) :
                     t \in TargetChoices, ops \in SeqsUpTo(AdmitOps, MaxOps)}
    /\ KernelStart

\* Patches for the scanner: a whitelisted target and operator, alone or
\* after a plain operation, carrying one nested value.
InitScan ==
    /\ zones \in {z \in ZoneConfigs : Len(z) = 2 /\ z[2].function = "evaluate"}
    /\ patch \in {PatchDict("Patch", ReduceSum, pre \o <<op>>, NoLimits) :
                     pre \in {<<>>, <<OpDict("INLINE", <<>>)>>}, op \in ScanOps}
    /\ KernelStart

\* Patches for the limit checks: a whitelisted target, one or two allowed
\* operations, every combination of declared limits.
InitLimits ==
    /\ zones \in {z \in ZoneConfigs : Len(z) = 1}
    /\ patch \in {PatchDict("Patch", ReduceSum, ops, lim) :
                     ops \in {<<ConstTune(0, 0 - 1, 1)>>,
                              <<ConstTune(0, 0 - 1, 1), OpDict("EQ_REWRITE", <<>>)>>},
                     lim \in LimitChoices}
    /\ KernelStart

InitKernel == InitAdmission \/ InitScan \/ InitLimits

\* Patches for successive attempts: a whitelisted target, one or two
\* allowed operations, an op-count limit of 0, 1 or the default, a memory
\* limit or none, and the DSL keys absent, within their limits, or with
\* one of them violated.
AttemptLimits ==
    {NoLimits,
     Limits(Absent, Some(0), Absent, Absent, Absent, Absent),
     Limits(Absent, Some(1), Absent, Absent, Absent, Some(RAM_LIMIT))}

AttemptPatches ==
    LET plain == {PatchDict("Patch", ReduceSum, ops, lim) :
                    ops \in {<<OpDict("EQ_REWRITE", <<>>)>>,
                             <<OpDict("EQ_REWRITE", <<>>), OpDict("EQ_REWRITE", <<>>)>>},
                    lim \in AttemptLimits}
    IN plain
       \cup {WithDslKeys(p, 1, TRUE, 1) : p \in plain}
       \cup {WithDslKeys(p, THETA_DIFF_LIMIT + 1, TRUE, 1) : p \in plain}
       \cup {WithDslKeys(p, 1, FALSE, 1) : p \in plain}
       \cup {WithDslKeys(p, 1, TRUE, CYCLOMATIC_LIMIT + 1) : p \in plain}

\* Successive attempts in one process: the first patch of the series.
InitAttempts ==
    /\ zones \in {z \in ZoneConfigs : Len(z) = 1}
    /\ patch \in AttemptPatches
    /\ KernelStart

\* The caller hands the next patch to run_variant in the same process: the
\* locals of the call are fresh, the module-level `limits` object
\* (interpreter.py line 56) and the log file are the ones the earlier
\* attempts left.
NextAttempt ==
    /\ run_pc \in {"returned", "raised"}
    /\ attempt < MaxAttempts
    /\ attempt' = attempt + 1
    /\ patch' \in AttemptPatches
    /\ run_pc' = "call"
    /\ run_error' = NoError
    /\ run_limits' = NoRunLimits
    /\ executed' = 0
    /\ invoked' = 0
    /\ UNCHANGED <<zones, limits, kernel_log>>

(***************************************************************************)
(* Audit logger: graine/kernel/logger.py                                   *)
(***************************************************************************)
\* Most lines in the log file, and most logger instances.
MaxLines == 3
MaxLoggers == 2

\* A record is a dict: its items in insertion order. The keys the callers
\* use, in the order sort_keys gives them.
KeyOrder == <<"event", "generation", "type">>
KeyRank(k) == CHOOSE i \in 1..Len(KeyOrder) : KeyOrder[i] = k

\* Records handed to log by run_variant and by the orchestrator, one of
\* them with its keys in either order.
RecordChoices ==
    { <<Item("event", "start")>>,
      <<Item("event", "error"), Item("type", "op_limit")>>,
      <<Item("type", "op_limit"), Item("event", "error")>>,
      <<Item("event", "meta_adopted"), Item("generation", "1")>> }

\* json.dumps(record, sort_keys=True): the items ordered by key.
RECURSIVE InsertByKey(_, _)
InsertByKey(item, sorted) ==
    IF sorted = <<>> THEN <<item>>
    ELSE IF KeyRank(item.k) < KeyRank(Head(sorted).k) THEN <<item>> \o sorted
    ELSE <<Head(sorted)>> \o InsertByKey(item, Tail(sorted))

RECURSIVE Canonical(_)
Canonical(record) ==
    IF record = <<>> THEN <<>>
    ELSE InsertByKey(Head(record), Canonical(Tail(record)))

\* "0" * 64, and hashlib.sha256((payload + prev_hash).encode()).hexdigest():
\* a digest stands for the text it was computed from, the payload followed
\* by the text behind prev_hash, so distinct texts have distinct digests
\* and no digest is the sentinel.
ZERO_HASH == <<>>
Sha256(payload, prev_hash) == <<payload>> \o prev_hash

\* A line of the file: an entry written by log, a line that is not JSON, or
\* a JSON object without "hash".
Entry(record, prev, hash) ==
    [kind |-> "entry", record |-> record, prev |-> prev, hash |-> hash]
GarbageLine == [kind |-> "garbage", record |-> <<>>, prev |-> ZERO_HASH, hash |-> ZERO_HASH]
NoHashLine == [kind |-> "nohash", record |-> <<>>, prev |-> ZERO_HASH, hash |-> ZERO_HASH]

File(exists, lines) == [exists |-> exists, lines |-> lines]

\* JsonlLogger.__init__ always starting from the zero hash.
OpenPrevHash_always_zero(file) == ZERO_HASH

\* JsonlLogger.__init__: prev_hash after reading the file (lines 17-29).
OpenPrevHash(file) ==
    IF ~file.exists \/ file.lines = <<>> THEN ZERO_HASH
    ELSE LET last_line == file.lines[Len(file.lines)]
         IN IF last_line.kind = "entry" THEN last_line.hash ELSE ZERO_HASH

\* JsonlLogger.log: the entry appended for `record` (lines 32-38).
LogEntryFor(record, prev_hash) ==
    Entry(record, prev_hash, Sha256(Canonical(record), prev_hash))

\* An instance: its lifecycle, its prev_hash, and how many log calls it made.
NewLogger == [state |-> "new", prev_hash |-> ZERO_HASH, written |-> 0]

\* Every line of the file was written by log.
WrittenByLogger(lines) == \A i \in 1..Len(lines) : lines[i].kind = "entry"
NoTamper == [kind |-> "none", pos |-> 0]

\* logger = JsonlLogger(path), once no other instance is writing.
LoggerOpen(i) ==
    /\ tamper = NoTamper
    /\ loggers[i].state = "new"
    /\ \A j \in DOMAIN loggers : loggers[j].state # "open"
    /\ loggers' = [loggers EXCEPT ![i] = [state |-> "open",
                                          prev_hash |-> OpenPrevHash(audit_file),
                                          written |-> 0]]
    /\ UNCHANGED <<audit_file, tamper>>

\* logger.log(record)
LoggerLog(i) ==
    /\ tamper = NoTamper
    /\ loggers[i].state = "open"
    /\ Len(audit_file.lines) < MaxLines
    /\ \E record \in RecordChoices :
         LET entry == LogEntryFor(record, loggers[i].prev_hash) IN
         /\ audit_file' = File(TRUE, Append(audit_file.lines, entry))
         /\ loggers' = [loggers EXCEPT ![i].prev_hash = entry.hash,
                                        ![i].written = @ + 1]
    /\ UNCHANGED tamper

\* The instance makes no further call (its caller returned).
LoggerStop(i) ==
    /\ tamper = NoTamper
    /\ loggers[i].state = "open"
    /\ loggers' = [loggers EXCEPT ![i].state = "stopped"]
    /\ UNCHANGED <<audit_file, tamper>>

\* logger = JsonlLogger(path) while other instances may be open on the same
\* path: the constructor reads the file as it is at that moment.
LoggerOpenShared(i) ==
    /\ tamper = NoTamper
    /\ loggers[i].state = "new"
    /\ loggers' = [loggers EXCEPT ![i] = [state |-> "open",
                                          prev_hash |-> OpenPrevHash(audit_file),
                                          written |-> 0]]
    /\ UNCHANGED <<audit_file, tamper>>

\* Lines a..b are removed from the file behind the logger's back.
RemoveLines ==
    /\ tamper = NoTamper
    /\ WrittenByLogger(audit_file.lines)
    /\ \E a \in 1..Len(audit_file.lines) : \E b \in a..Len(audit_file.lines) :
         /\ audit_file' = File(TRUE, SubSeq(audit_file.lines, 1, a - 1)
                                     \o SubSeq(audit_file.lines, b + 1, Len(audit_file.lines)))
         /\ tamper' = [kind |-> "removed", pos |-> a]
    /\ UNCHANGED loggers

\* The record fields of one line are changed behind the logger's back.
EditLine ==
    /\ tamper = NoTamper
    /\ WrittenByLogger(audit_file.lines)
    /\ \E i \in 1..Len(audit_file.lines) : \E record \in RecordChoices :
         /\ Canonical(record) # Canonical(audit_file.lines[i].record)
         /\ audit_file' = File(TRUE, [audit_file.lines EXCEPT ![i].record = record])
         /\ tamper' = [kind |-> "edited", pos |-> i]
    /\ UNCHANGED loggers

\* The file before the first logger: missing, empty, or ending in a line
\* the constructor cannot use.
InitLogger ==
    /\ audit_file \in {File(FALSE, <<>>), File(TRUE, <<>>),
                       File(TRUE, <<GarbageLine>>), File(TRUE, <<NoHashLine>>)}
    /\ loggers = [i \in 1..MaxLoggers |-> NewLogger]
    /\ tamper = NoTamper

LogIdle ==
    /\ audit_file = File(FALSE, <<>>)
    /\ loggers = <<>>
    /\ tamper = NoTamper

(***************************************************************************)
(* Meta policy: graine/meta/dsl.py                                         *)
(***************************************************************************)
MAX_POPULATION_CAP == 100
SELECTION_STRATEGIES == {"elitism"}

\* _WEIGHT_TOLERANCE = 1e-6 is 1 / ToleranceDenominator.
ToleranceDenominator == 1000000

\* A dict of floats: its keys in insertion order and its values as exact
\* fractions nums[i] / den over one denominator.
Dist(keys, nums, den) == [keys |-> keys, nums |-> nums, den |-> den]
EmptyDist == Dist(<<>>, <<>>, 1)

RECURSIVE SumSeq(_)
SumSeq(xs) == IF xs = <<>> THEN 0 ELSE Head(xs) + SumSeq(Tail(xs))

Abs(x) == IF x < 0 THEN 0 - x ELSE x

\* abs(sum(values) - 1.0) > _WEIGHT_TOLERANCE
SumOffOne(d) == Abs(SumSeq(d.nums) - d.den) * ToleranceDenominator > d.den

MetaSpec(weights, operator_mix, population_cap, selection_strategy, diff_max, forbidden) ==
    [weights |-> weights, operator_mix |-> operator_mix,
     population_cap |-> population_cap, selection_strategy |-> selection_strategy,
     diff_max |-> diff_max, forbidden |-> forbidden]

\* validate with the strategy check moved before the population cap check.
MetaValidate_strategy_first(spec) ==
    LET w == spec.weights
        m == spec.operator_mix
    IN IF w.keys = <<>> THEN "Weights must be provided"
       ELSE IF \/ \E i \in 1..Len(w.nums) : w.nums[i] < 0 \/ w.nums[i] > w.den
               \/ SumOffOne(w)
            THEN "Weights must be within [0,1] and sum to 1"
       ELSE IF m.keys = <<>> THEN "Operator mix must be provided"
       ELSE IF \E i \in 1..Len(m.keys) : m.keys[i] \notin OPERATOR_NAMES
            THEN "Unknown operator in mix"
       ELSE IF \/ \E i \in 1..Len(m.nums) : m.nums[i] < 0
               \/ SumOffOne(m)
            THEN "Operator mix must be non-negative and sum to 1"
       ELSE IF spec.selection_strategy \notin SELECTION_STRATEGIES
            THEN "Unknown selection strategy"
       ELSE IF ~(0 < spec.population_cap /\ spec.population_cap <= MAX_POPULATION_CAP)
            THEN "Population cap exceeds constitutional limit"
       ELSE IF spec.diff_max > DIFF_LIMIT THEN "diff_max exceeds constitutional limit"
       ELSE IF spec.forbidden # <<>> THEN "Cannot relax constitutional forbiddens"
       ELSE "ok"

\* MetaSpec.validate: "ok", or the message of the MetaValidationError raised
\* (without the operator name the code appends to one of them).
MetaValidate(spec) ==
    LET w == spec.weights
        m == spec.operator_mix
    IN IF w.keys = <<>> THEN "Weights must be provided"
       ELSE IF \/ \E i \in 1..Len(w.nums) : w.nums[i] < 0 \/ w.nums[i] > w.den
               \/ SumOffOne(w)
            THEN "Weights must be within [0,1] and sum to 1"
       ELSE IF m.keys = <<>> THEN "Operator mix must be provided"
       ELSE IF \E i \in 1..Len(m.keys) : m.keys[i] \notin OPERATOR_NAMES
            THEN "Unknown operator in mix"
       ELSE IF \/ \E i \in 1..Len(m.nums) : m.nums[i] < 0
               \/ SumOffOne(m)
            THEN "Operator mix must be non-negative and sum to 1"
       ELSE IF ~(0 < spec.population_cap /\ spec.population_cap <= MAX_POPULATION_CAP)
            THEN "Population cap exceeds constitutional limit"
       ELSE IF spec.selection_strategy \notin SELECTION_STRATEGIES
            THEN "Unknown selection strategy"
       ELSE IF spec.diff_max > DIFF_LIMIT THEN "diff_max exceeds constitutional limit"
       ELSE IF spec.forbidden # <<>> THEN "Cannot relax constitutional forbiddens"
       ELSE "ok"

\* ---- inputs of validate and propose_mutation
Needs == <<"perf", "robust">>
MixOps == <<"CONST_TUNE", "EQ_REWRITE">>

\* weights dicts: missing, valid (even, single, one-sided, within the
\* tolerance), not
\* summing to 1 (by far, just beyond the tolerance), out of [0,1].
WeightsChoices ==
    { EmptyDist,
      Dist(Needs, <<1, 1>>, 2),
      Dist(<<"perf">>, <<1>>, 1),
      Dist(Needs, <<1, 0>>, 1),
      Dist(Needs, <<1000000, 1000001>>, 2000000),
      Dist(Needs, <<7, 2>>, 10),
      Dist(Needs, <<500000, 500002>>, 1000000),
      Dist(Needs, <<3, 0 - 1>>, 2) }

\* operator_mix dicts: missing, valid, with an unknown operator, not
\* summing to 1, with a negative entry.
MixChoices ==
    { EmptyDist,
      Dist(MixOps, <<1, 1>>, 2),
      Dist(<<"CONST_TUNE">>, <<1>>, 1),
      Dist(<<"CONST_TUNE", "BAD_OP">>, <<1, 1>>, 2),
      Dist(<<"BAD_OP">>, <<1>>, 2),
      Dist(<<"CONST_TUNE">>, <<1>>, 2),
      Dist(MixOps, <<3, 0 - 1>>, 2) }

MetaSpecs ==
    { MetaSpec(w, m, cap, strategy, diff_max, forbidden) :
        w \in WeightsChoices, m \in MixChoices,
        cap \in {0, 1, MAX_POPULATION_CAP, MAX_POPULATION_CAP + 1},
        strategy \in {"elitism", "random"},
        diff_max \in {5, DIFF_LIMIT, DIFF_LIMIT + 1},
        forbidden \in {<<>>, <<"net">>} }

NoMetaSpec == MetaSpec(EmptyDist, EmptyDist, 0, "elitism", DIFF_LIMIT, <<>>)

InitMeta ==
    /\ meta_spec \in MetaSpecs
    /\ meta_pc = "input"
    /\ meta_result = "none"
    /\ meta_proposal = NoMetaSpec

\* spec.validate()
Meta_validate ==
    /\ meta_pc = "input"
    /\ meta_pc' = "validated"
    /\ meta_result' = MetaValidate(meta_spec)
    /\ UNCHANGED <<meta_spec, meta_proposal>>

(***************************************************************************)
(* Meta mutation: graine/meta/evolve.py                                    *)
(***************************************************************************)
RECURSIVE Gcd(_, _)
Gcd(a, b) == IF b = 0 THEN a ELSE Gcd(b, a % b)

RECURSIVE GcdSeq(_)
GcdSeq(xs) == IF xs = <<>> THEN 0 ELSE Gcd(Head(xs), GcdSeq(Tail(xs)))

\* The same fractions in lowest terms.
Reduce(d) ==
    LET g == Gcd(GcdSeq(d.nums), d.den)
    IN Dist(d.keys, [i \in 1..Len(d.nums) |-> d.nums[i] \div g], d.den \div g)

\* dist[key] += u, for the i-th key and u = un / ud.
Perturb(d, i, un, ud) ==
    Dist(d.keys,
         [j \in 1..Len(d.nums) |-> d.nums[j] * ud + (IF j = i THEN un * d.den ELSE 0)],
         d.den * ud)

\* _renormalize(dist): negative values clamped to 0, then every value
\* divided by the total, or 1 / len(dist) each when the total is 0.
Renormalize(d) ==
    LET clamped == [j \in 1..Len(d.nums) |-> IF d.nums[j] < 0 THEN 0 ELSE d.nums[j]]
        total == SumSeq(clamped)
    IN IF d.keys = <<>> THEN d
       ELSE IF total = 0 THEN Dist(d.keys, [j \in 1..Len(d.nums) |-> 1], Len(d.nums))
       ELSE Reduce(Dist(d.keys, clamped, total))

\* The random draws of one propose_mutation call: rng.choice of a weights
\* key and of a mix key (0 when the dict is empty), the sign of each
\* rng.uniform(-delta, delta) draw taken at its extreme, rng.choice([-1, 1]).
KeyChoices(d) == IF d.keys = <<>> THEN {0} ELSE 1..Len(d.keys)

Draws(spec) ==
    [wkey : KeyChoices(spec.weights), wsign : {0 - 1, 1},
     mkey : KeyChoices(spec.operator_mix), msign : {0 - 1, 1},
     pop_change : {0 - 1, 1}]

\* new_spec.population_cap + pop_change, not clamped.
NewPopulationCap_unclamped(cap, pop_change) == cap + pop_change

\* max(1, min(MAX_POPULATION_CAP, new_pop))
NewPopulationCap(cap, pop_change) ==
    LET new_pop == cap + pop_change
        capped == IF new_pop > MAX_POPULATION_CAP THEN MAX_POPULATION_CAP ELSE new_pop
    IN IF capped < 1 THEN 1 ELSE capped

\* The spec propose_mutation builds before it validates it (lines 50-74),
\* for delta = dn / dd.
MutatedSpec(spec, dn, dd, draw) ==
    [spec EXCEPT
       !.weights = IF spec.weights.keys = <<>> THEN @
                   ELSE Renormalize(Perturb(@, draw.wkey, draw.wsign * dn, dd)),
       !.operator_mix = IF spec.operator_mix.keys = <<>> THEN @
                        ELSE Renormalize(Perturb(@, draw.mkey, draw.msign * dn, dd)),
       !.population_cap = NewPopulationCap(@, draw.pop_change)]

\* The spec passed to propose_mutation, after the call: new_spec is built
\* from dict(spec.weights), dict(spec.operator_mix) and list(spec.forbidden),
\* so the in-place updates of new_spec do not reach it.
SourceAfterProposal_aliased(spec, new_spec) ==
    [spec EXCEPT !.weights = new_spec.weights, !.operator_mix = new_spec.operator_mix]

SourceAfterProposal(spec, new_spec) == spec

\* The delta argument: the default 0.1, and 2.0.
DeltaChoices == {<<1, 10>>, <<2, 1>>}

\* propose_mutation(spec, delta, rng): the new spec and the outcome of its
\* validate call.
Meta_propose_mutation ==
    /\ meta_pc = "input"
    /\ \E delta \in DeltaChoices : \E draw \in Draws(meta_spec) :
         LET new_spec == MutatedSpec(meta_spec, delta[1], delta[2], draw) IN
         /\ meta_proposal' = new_spec
         /\ meta_result' = MetaValidate(new_spec)
         /\ meta_spec' = SourceAfterProposal(meta_spec, new_spec)
    /\ meta_pc' = "proposed"

MetaIdle ==
    /\ meta_spec = NoMetaSpec
    /\ meta_pc = "idle"
    /\ meta_result = "none"
    /\ meta_proposal = NoMetaSpec

(***************************************************************************)
(* Orchestrator: graine/evolver/main.py                                    *)
(***************************************************************************)
\* Most generations of a run.
MaxGenerations == 3
AdoptEveryChoices == {1, 2}

\* proposed.population_cap >= meta.population_cap, replaced by TRUE.
Adopts_always(proposed, current) == TRUE

\* Line 112: proposed.population_cap >= meta.population_cap
Adopts(proposed, current) == proposed.population_cap >= current.population_cap

TraceEvent(kind, generation) == [kind |-> kind, generation |-> generation]
Snapshot(generation, history_len, m) ==
    [generation |-> generation, history_len |-> history_len, meta |-> m]
\* A call of mutate_meta: the policy passed, the same object after the call,
\* the spec the call built, and "adopted", "rejected" or "raised".
Proposal(generation, current, source, proposed, outcome) ==
    [generation |-> generation, current |-> current, source |-> source,
     proposed |-> proposed, outcome |-> outcome]

\* Policies passed to run: valid ones from the floor to the ceiling of
\* population_cap, and ones that break one rule each (run does not
\* validate its argument).
OrchMetas ==
    { MetaSpec(Dist(Needs, <<1, 1>>, 2), Dist(<<"CONST_TUNE">>, <<1>>, 1),
               cap, strategy, diff_max, forbidden) :
        cap \in {1, MAX_POPULATION_CAP - 1, MAX_POPULATION_CAP, MAX_POPULATION_CAP + 1},
        strategy \in {"elitism", "random"},
        diff_max \in {DIFF_LIMIT, DIFF_LIMIT + 1},
        forbidden \in {<<>>, <<"net">>} }

\* A zone as generate.load_zones returns it.
GenZone(file, function, purity, max_cyclomatic, operators) ==
    [file |-> file, function |-> function, purity |-> purity,
     max_cyclomatic |-> max_cyclomatic, operators |-> operators]

\* A Patch built by propose_mutations for one operator of a zone.
GenPatch(zone, op_name) ==
    [target |-> Target(zone.file, zone.function),
     ops |-> <<op_name>>,
     theta_diff |-> Min2(0, THETA_DIFF_LIMIT),
     purity |-> zone.purity,
     cyclomatic |-> Min2(zone.max_cyclomatic, CYCLOMATIC_LIMIT)]

\* The patches of one zone: one per operator, those whose from_dict or
\* validate raises being skipped.
RECURSIVE ZonePatches(_, _)
ZonePatches(zone, names) ==
    IF names = <<>> THEN <<>>
    ELSE LET p == GenPatch(zone, Head(names))
             keep == OperationsFromDict(p.ops) = "ok" /\ validate(p) = "ok"
         IN (IF keep THEN <<p>> ELSE <<>>) \o ZonePatches(zone, Tail(names))

\* propose_mutations(): the patches of every zone, in file order.
RECURSIVE propose_mutations(_)
propose_mutations(zs) ==
    IF zs = <<>> THEN <<>>
    ELSE ZonePatches(Head(zs), Head(zs).operators) \o propose_mutations(Tail(zs))

\* Lines 75-88: the patches whose validate() does not raise become
\* candidates with random objectives.
ScoredCandidates(zs) ==
    SelectSeq(propose_mutations(zs), LAMBDA p : validate(p) = "ok")

\* Zone registries: the whitelisted function with two operators, an impure
\* zone beside a pure one, and a zone that lists an unknown operator.
OrchZoneConfigs ==
    { <<GenZone(ReduceSum.file, ReduceSum.function, TRUE, 10, <<"CONST_TUNE", "EQ_REWRITE">>)>>,
      <<GenZone("target/src/evaluate.py", "evaluate", FALSE, 10, <<"CONST_TUNE">>),
        GenZone(ReduceSum.file, ReduceSum.function, TRUE, 50, <<"EQ_REWRITE">>)>>,
      <<GenZone(ReduceSum.file, ReduceSum.function, TRUE, 10, <<"BAD_OP", "INLINE">>)>> }

InitOrchestrator ==
    /\ orch_zones \in OrchZoneConfigs
    /\ scored = <<>>
    /\ generations \in 0..MaxGenerations
    /\ adopt_every \in AdoptEveryChoices
    /\ meta0 \in OrchMetas
    /\ meta = meta0
    /\ gen = 0
    /\ orch_pc = "run"
    /\ orch_error = "none"
    /\ orch_trace = <<>>
    /\ snapshots = <<>>
    /\ proposals = <<>>

\* One iteration of `for gen in range(1, generations + 1)` (lines 72-116):
\* selection, the "generation" record, the snapshot, and every adopt_every
\* generations a proposal that is adopted or rejected, or whose validate
\* call raises out of run.
RunGeneration ==
    /\ orch_pc = "run"
    /\ gen < generations
    /\ gen' = gen + 1
    /\ scored' = Append(scored, ScoredCandidates(orch_zones))
    /\ snapshots' = Append(snapshots, Snapshot(gen + 1, gen + 1, meta))
    /\ LET done == orch_trace \o <<TraceEvent("select", gen + 1),
                                   TraceEvent("generation", gen + 1),
                                   TraceEvent("snapshot", gen + 1)>>
       IN IF (gen + 1) % adopt_every # 0
          THEN /\ orch_trace' = done
               /\ UNCHANGED <<meta, orch_pc, orch_error, proposals>>
          ELSE \E draw \in Draws(meta) :
                 LET proposed == MutatedSpec(meta, 1, 10, draw)
                     current == SourceAfterProposal(meta, proposed)
                 IN IF MetaValidate(proposed) # "ok"
                    THEN /\ orch_pc' = "raised"
                         /\ orch_error' = MetaValidate(proposed)
                         /\ orch_trace' = done
                         /\ meta' = current
                         /\ proposals' = Append(proposals,
                               Proposal(gen + 1, meta, current, proposed, "raised"))
                    ELSE IF Adopts(proposed, current)
                    THEN /\ meta' = proposed
                         /\ orch_trace' = Append(done, TraceEvent("meta_adopted", gen + 1))
                         /\ proposals' = Append(proposals,
                               Proposal(gen + 1, meta, current, proposed, "adopted"))
                         /\ UNCHANGED <<orch_pc, orch_error>>
                    ELSE /\ meta' = current
                         /\ orch_trace' = Append(done, TraceEvent("meta_rejected", gen + 1))
                         /\ proposals' = Append(proposals,
                               Proposal(gen + 1, meta, current, proposed, "rejected"))
                         /\ UNCHANGED <<orch_pc, orch_error>>
    /\ UNCHANGED <<generations, adopt_every, meta0, orch_zones>>

\* Line 118: return meta
RunReturn ==
    /\ orch_pc = "run"
    /\ gen = generations
    /\ orch_pc' = "returned"
    /\ UNCHANGED <<generations, adopt_every, meta0, meta, gen, orch_error,
                   orch_trace, snapshots, proposals, orch_zones, scored>>

OrchIdle ==
    /\ orch_zones = <<>>
    /\ scored = <<>>
    /\ generations = 0
    /\ adopt_every = 1
    /\ meta0 = NoMetaSpec
    /\ meta = NoMetaSpec
    /\ gen = 0
    /\ orch_pc = "idle"
    /\ orch_error = "none"
    /\ orch_trace = <<>>
    /\ snapshots = <<>>
    /\ proposals = <<>>

(***************************************************************************)
(* Snapshot replay: graine/meta/phantom.py                                 *)
(***************************************************************************)
\* Most snapshot files in the directory.
MaxSnaps == 3

\* File names, as the digit strings that tell them apart: "1", "10", "2".
SnapNames == {<<1>>, <<1, 0>>, <<2>>}

\* Comparison of two names as sorted() compares strings.
RECURSIVE LexLess(_, _)
LexLess(a, b) ==
    IF b = <<>> THEN FALSE
    ELSE IF a = <<>> THEN TRUE
    ELSE IF Head(a) # Head(b) THEN Head(a) < Head(b)
    ELSE LexLess(Tail(a), Tail(b))

\* sorted(Path(directory).glob("*.json"))
RECURSIVE SortedNames(_)
SortedNames(names) ==
    IF names = {} THEN <<>>
    ELSE LET first == CHOOSE n \in names : \A m \in names \ {n} : LexLess(n, m)
         IN <<first>> \o SortedNames(names \ {first})

\* [:k] of a list, for k >= 0.
FirstK(seq, k) == SubSeq(seq, 1, Min2(k, Len(seq)))

HistoryEntry(err, cost) == [err |-> err, cost |-> cost]

\* last.err > first.err or last.cost > first.cost (line 53)
Regressed_err_only(history) ==
    history[Len(history)].err > history[1].err

Regressed(history) ==
    \/ history[Len(history)].err > history[1].err
    \/ history[Len(history)].cost > history[1].cost

\* Histories of a snapshot: none, one entry, an improvement, a regression of
\* err, a regression of cost, and a dip followed by a return to the start.
HistoryChoices ==
    { <<>>,
      <<HistoryEntry(1, 1)>>,
      <<HistoryEntry(2, 2), HistoryEntry(1, 0)>>,
      <<HistoryEntry(1, 1), HistoryEntry(2, 0)>>,
      <<HistoryEntry(1, 1), HistoryEntry(0, 2)>>,
      <<HistoryEntry(1, 1), HistoryEntry(2, 2), HistoryEntry(1, 1)>> }

\* The meta of a snapshot: a policy that validates and one over the ceiling.
SnapMetas ==
    { MetaSpec(Dist(Needs, <<1, 1>>, 2), Dist(<<"CONST_TUNE">>, <<1>>, 1),
               cap, "elitism", DIFF_LIMIT, <<>>) :
        cap \in {10, MAX_POPULATION_CAP + 1} }

SnapshotFile(m, history) == [meta |-> m, history |-> history]

Totals(err, cost) == [err |-> err, cost |-> cost]

\* The averages returned, each as <<numerator, denominator>>; 0 when no
\* path was processed.
Averages(totals, n) ==
    [robustness |-> IF n # 0 THEN <<totals.err, n>> ELSE <<0, 1>>,
     safety |-> IF n # 0 THEN <<totals.cost, n>> ELSE <<0, 1>>]

NoAverages == [robustness |-> <<>>, safety |-> <<>>]

\* paths (line 40)
ReplayPaths == FirstK(SortedNames(DOMAIN snapshot_dir), replay_k)

InitReplay ==
    /\ \E names \in SUBSET SnapNames :
         /\ Cardinality(names) <= MaxSnaps
         /\ snapshot_dir \in [names -> {SnapshotFile(m, h) : m \in SnapMetas, h \in HistoryChoices}]
    /\ replay_k \in 0..(MaxSnaps + 1)
    /\ replay_pc = "loop"
    /\ replay_read = <<>>
    /\ replay_totals = Totals(0, 0)
    /\ replay_error = NoError
    /\ replay_result = NoAverages

\* One iteration of `for path in paths` (lines 44-57).
ReplayStep ==
    /\ replay_pc = "loop"
    /\ Len(replay_read) < Len(ReplayPaths)
    /\ LET path == ReplayPaths[Len(replay_read) + 1]
           data == snapshot_dir[path]
           last == data.history[Len(data.history)]
       IN /\ replay_read' = Append(replay_read, path)
          /\ IF MetaValidate(data.meta) # "ok"
             THEN /\ replay_pc' = "raised"
                  /\ replay_error' = Raised("MetaValidationError", MetaValidate(data.meta))
                  /\ UNCHANGED replay_totals
             ELSE IF data.history = <<>>
             THEN UNCHANGED <<replay_pc, replay_error, replay_totals>>
             ELSE IF Regressed(data.history)
             THEN /\ replay_pc' = "raised"
                  /\ replay_error' = Raised("RuntimeError", "Regression detected")
                  /\ UNCHANGED replay_totals
             ELSE /\ replay_totals' = Totals(replay_totals.err + last.err,
                                             replay_totals.cost + last.cost)
                  /\ UNCHANGED <<replay_pc, replay_error>>
    /\ UNCHANGED <<snapshot_dir, replay_k, replay_result>>

\* Lines 59-63: the averages over len(paths).
ReplayReturn ==
    /\ replay_pc = "loop"
    /\ Len(replay_read) = Len(ReplayPaths)
    /\ replay_pc' = "returned"
    /\ replay_result' = Averages(replay_totals, Len(ReplayPaths))
    /\ UNCHANGED <<snapshot_dir, replay_k, replay_read, replay_totals, replay_error>>

ReplayIdle ==
    /\ snapshot_dir = <<>>
    /\ replay_k = 0
    /\ replay_pc = "idle"
    /\ replay_read = <<>>
    /\ replay_totals = Totals(0, 0)
    /\ replay_error = NoError
    /\ replay_result = NoAverages

(***************************************************************************)
(* Process sandbox: singular/life/sandbox.py                               *)
(***************************************************************************)
\* Bytes the pipe under a multiprocessing.Queue holds before a write
\* blocks, in units of the smallest message.
PipeCapacity == 2
SmallSize == 1
LargeSize == PipeCapacity + 1

\* CPU time the code needs: none to speak of, more than a second, more
\* than two, and unbounded (while True: pass).  Tenths of a second.
Forever == 10000
CpuNeeds == {0, 12, 22, Forever}
TimeoutChoices == {5, 15, 25}

Max2(a, b) == IF a >= b THEN a ELSE b

\* cpu_seconds = max(1, int(timeout)), in tenths of a second (line 73).
CpuLimit(timeout) == 10 * Max2(1, timeout \div 10)

\* The code submitted: whether _validate_ast accepts it, the CPU time it
\* needs, whether it ends normally or by an exception, and the pickled size
\* of what the child puts on the queue.
Code(allowed, cpu, ends, size) ==
    [allowed |-> allowed, cpu |-> cpu, ends |-> ends, size |-> size]

NoCode == Code(TRUE, 0, "value", SmallSize)

\* The sandboxed code uses CPU for all of its run time (it can neither
\* sleep nor wait), so it is done before both the wall-clock timeout and
\* the RLIMIT_CPU ceiling, or killed by the kernel at the ceiling when that
\* comes first, or still running when the timeout elapses.
Fate(code, timeout) ==
    IF code.cpu < Min2(timeout, CpuLimit(timeout)) THEN "finishes"
    ELSE IF CpuLimit(timeout) < timeout THEN "killed"
    ELSE "overruns"

Outcome(kind, value) == [kind |-> kind, value |-> value]
NoOutcome == Outcome("none", "")
NoMessage == "none"

InitSandbox ==
    /\ sb_code \in {Code(a, c, e, sz) : a \in BOOLEAN, c \in CpuNeeds,
                       e \in {"value", "exception"}, sz \in {SmallSize, LargeSize}}
    /\ sb_timeout \in TimeoutChoices
    /\ sb_pc = "validate"
    /\ child_pc = "none"
    /\ child_end = "none"
    /\ reaped = FALSE
    /\ feeder = 0
    /\ pipe = 0
    /\ pipe_msg = NoMessage
    /\ sb_outcome = NoOutcome

\* Lines 66-67: ast.parse and _validate_ast.
SandboxValidate ==
    /\ sb_pc = "validate"
    /\ IF sb_code.allowed
       THEN /\ sb_pc' = "start"
            /\ UNCHANGED sb_outcome
       ELSE /\ sb_pc' = "done"
            /\ sb_outcome' = Outcome("raise", "SandboxError")
    /\ UNCHANGED <<sb_code, sb_timeout, child_pc, child_end, reaped, feeder, pipe, pipe_msg>>

\* Lines 86-88: proc.start(), then the parent waits in proc.join(timeout).
ProcStart ==
    /\ sb_pc = "start"
    /\ sb_pc' = "join"
    /\ child_pc' = "exec"
    /\ UNCHANGED <<sb_code, sb_timeout, child_end, reaped, feeder, pipe, pipe_msg, sb_outcome>>

\* Lines 80-84 in the child: exec to the end, then q.put of the result or
\* of the exception; put hands the pickled object to the feeder thread.
ChildPut ==
    /\ child_pc = "exec"
    /\ Fate(sb_code, sb_timeout) = "finishes"
    /\ child_pc' = "exiting"
    /\ feeder' = sb_code.size
    /\ pipe_msg' = sb_code.ends
    /\ UNCHANGED <<sb_code, sb_timeout, sb_pc, child_end, reaped, pipe, sb_outcome>>

\* The kernel ends the child at its RLIMIT_CPU ceiling (lines 73-74).
ChildKilledByOs ==
    /\ child_pc = "exec"
    /\ Fate(sb_code, sb_timeout) = "killed"
    /\ child_pc' = "dead"
    /\ child_end' = "os_killed"
    /\ UNCHANGED <<sb_code, sb_timeout, sb_pc, reaped, feeder, pipe, pipe_msg, sb_outcome>>

\* The queue's feeder thread writes to the pipe as far as it has room.
FeederWrite ==
    /\ child_pc = "exiting"
    /\ feeder > 0
    /\ pipe < PipeCapacity
    /\ LET n == Min2(feeder, PipeCapacity - pipe)
       IN /\ feeder' = feeder - n
          /\ pipe' = pipe + n
    /\ UNCHANGED <<sb_code, sb_timeout, sb_pc, child_pc, child_end, reaped, pipe_msg, sb_outcome>>

\* The child process exits once the feeder thread has flushed the queue
\* (multiprocessing joins that thread at exit).
ChildExit ==
    /\ child_pc = "exiting"
    /\ feeder = 0
    /\ child_pc' = "dead"
    /\ child_end' = "exited"
    /\ UNCHANGED <<sb_code, sb_timeout, sb_pc, reaped, feeder, pipe, pipe_msg, sb_outcome>>

\* The child can take no step before the timeout: its code overruns, or
\* its feeder waits for room in a pipe nobody reads.
ChildStuck ==
    \/ child_pc = "exec" /\ Fate(sb_code, sb_timeout) = "overruns"
    \/ child_pc = "exiting" /\ feeder > 0 /\ pipe = PipeCapacity

\* Line 88: proc.join(timeout) returns because the child has ended, and
\* collects it; line 89: is_alive() is false.
JoinReturns ==
    /\ sb_pc = "join"
    /\ child_pc = "dead"
    /\ reaped' = TRUE
    /\ sb_pc' = "result"
    /\ UNCHANGED <<sb_code, sb_timeout, child_pc, child_end, feeder, pipe, pipe_msg, sb_outcome>>

\* Lines 88-89: proc.join(timeout) returns on the timeout and is_alive()
\* is true.
JoinTimesOut ==
    /\ sb_pc = "join"
    /\ ChildStuck
    /\ sb_pc' = "terminate"
    /\ UNCHANGED <<sb_code, sb_timeout, child_pc, child_end, reaped, feeder, pipe, pipe_msg, sb_outcome>>

\* Line 90: proc.terminate() sends SIGTERM and returns.
ProcTerminate ==
    /\ sb_pc = "terminate"
    /\ child_pc' = "signalled"
    /\ sb_pc' = "reap"
    /\ UNCHANGED <<sb_code, sb_timeout, child_end, reaped, feeder, pipe, pipe_msg, sb_outcome>>

\* The child dies of the signal.
ChildTerminated ==
    /\ child_pc = "signalled"
    /\ child_pc' = "dead"
    /\ child_end' = "terminated"
    /\ UNCHANGED <<sb_code, sb_timeout, sb_pc, reaped, feeder, pipe, pipe_msg, sb_outcome>>

\* raise TimeoutError straight after terminate(), without the join.
ReapAndRaise_without_join ==
    /\ sb_pc = "reap"
    /\ sb_pc' = "done"
    /\ sb_outcome' = Outcome("raise", "TimeoutError")
    /\ UNCHANGED <<sb_code, sb_timeout, child_pc, child_end, reaped, feeder, pipe, pipe_msg>>

\* Lines 91-92: proc.join() waits for the child to die and collects it,
\* then raise TimeoutError.
ReapAndRaise ==
    /\ sb_pc = "reap"
    /\ child_pc = "dead"
    /\ reaped' = TRUE
    /\ sb_pc' = "done"
    /\ sb_outcome' = Outcome("raise", "TimeoutError")
    /\ UNCHANGED <<sb_code, sb_timeout, child_pc, child_end, feeder, pipe, pipe_msg>>

\* Lines 94-99: the object on the queue is returned, or raised when it is
\* an exception; an empty queue makes run return None.
TakeResult ==
    /\ sb_pc = "result"
    /\ sb_pc' = "done"
    /\ IF pipe > 0
       THEN /\ pipe' = 0
            /\ sb_outcome' = IF pipe_msg = "exception"
                             THEN Outcome("raise", "exception of the code")
                             ELSE Outcome("return", "result")
       ELSE /\ sb_outcome' = Outcome("return", "None")
            /\ UNCHANGED pipe
    /\ UNCHANGED <<sb_code, sb_timeout, child_pc, child_end, reaped, feeder, pipe_msg>>

SandboxIdle ==
    /\ sb_code = NoCode
    /\ sb_timeout = 0
    /\ sb_pc = "idle"
    /\ child_pc = "none"
    /\ child_end = "none"
    /\ reaped = FALSE
    /\ feeder = 0
    /\ pipe = 0
    /\ pipe_msg = NoMessage
    /\ sb_outcome = NoOutcome

(***************************************************************************)
(* Run logger: singular/runs/logger.py                                     *)
(***************************************************************************)
\* MAX_RUN_LOGS: int(os.environ.get("SINGULAR_RUNS_KEEP", "20"))
MAX_RUN_LOGS == 20

\* Most records logged for the run, over its sessions.
MaxRecords == 2

RunFile(exists, lines) == [exists |-> exists, lines |-> lines]
NoRunFile == RunFile(FALSE, <<>>)

\* _enforce_retention keeps the `keep` most recently modified files of a
\* kind: the run's own file goes when that many others are newer.
Survives(file, newer) == file.exists /\ newer < MAX_RUN_LOGS

Retained(file, newer) == IF Survives(file, newer) THEN file ELSE NoRunFile

\* The content of the file when retention removes it.
Removed(file, newer) ==
    IF file.exists /\ ~Survives(file, newer) THEN <<file.lines>> ELSE <<>>

\* Lines 108-121, with the file opened "w" instead of "a".
OpenTmp_truncating(tmp) == RunFile(TRUE, <<>>)

\* Lines 108-121: the existing temporary file of the run is reopened for
\* append, otherwise a new one is created.
OpenTmp(tmp) == IF tmp.exists THEN tmp ELSE RunFile(TRUE, <<>>)

InitRunLogger ==
    /\ rl_tmp = NoRunFile
    /\ rl_final = NoRunFile
    /\ rl_state = "none"
    /\ rl_sessions = 0
    /\ rl_closes = 0
    /\ rl_logged = <<>>
    /\ rl_lost = <<>>
    /\ newer_tmps = 0
    /\ newer_logs = 0

\* RunLogger(run_id): __post_init__ (lines 101-121), retention first.  A
\* new temporary file is the newest of the directory.
RunLoggerNew ==
    /\ rl_state \in {"none", "crashed"}
    /\ rl_sessions < 2
    /\ LET kept == Retained(rl_tmp, newer_tmps)
       IN /\ rl_tmp' = OpenTmp(kept)
          /\ rl_lost' = rl_lost \o Removed(rl_tmp, newer_tmps)
          /\ newer_tmps' = IF kept.exists THEN Min2(newer_tmps, MAX_RUN_LOGS) ELSE 0
          /\ newer_logs' = IF kept.exists THEN newer_logs ELSE 0
    /\ rl_state' = "open"
    /\ rl_sessions' = rl_sessions + 1
    /\ UNCHANGED <<rl_final, rl_closes, rl_logged>>

\* log and its siblings: one line appended, flushed and fsynced; the file
\* becomes the most recently modified one.
RunLoggerLog ==
    /\ rl_state = "open"
    /\ Len(rl_logged) < MaxRecords
    /\ LET record == Len(rl_logged) + 1
       IN /\ rl_tmp' = RunFile(rl_tmp.exists, Append(rl_tmp.lines, record))
          /\ rl_logged' = Append(rl_logged, record)
    /\ newer_tmps' = 0
    /\ newer_logs' = 0
    /\ UNCHANGED <<rl_final, rl_state, rl_sessions, rl_closes, rl_lost>>

\* The process dies with the logger open (tests/test_runs_logger.py
\* simulates it by closing the file object).
RunLoggerCrash ==
    /\ rl_state = "open"
    /\ rl_sessions = 1
    /\ rl_state' = "crashed"
    /\ UNCHANGED <<rl_tmp, rl_final, rl_sessions, rl_closes, rl_logged, rl_lost,
                   newer_tmps, newer_logs>>

\* Another run in the same directory, from RunLogger(...) to close(): its
\* constructor applies retention to the temporary files, its close adds a
\* final file and applies retention to the final files.
OtherRunCompletes ==
    /\ rl_state = "crashed"
    /\ rl_tmp' = Retained(rl_tmp, newer_tmps)
    /\ rl_lost' = rl_lost \o Removed(rl_tmp, newer_tmps)
    /\ newer_tmps' = Min2(newer_tmps, MAX_RUN_LOGS)
    /\ newer_logs < MAX_RUN_LOGS
    /\ newer_logs' = newer_logs + 1
    /\ UNCHANGED <<rl_final, rl_state, rl_sessions, rl_closes, rl_logged>>

\* Another run in the same directory that dies with its logger open.
OtherRunCrashes ==
    /\ rl_state = "crashed"
    /\ rl_tmp.exists
    /\ rl_tmp' = Retained(rl_tmp, newer_tmps)
    /\ rl_lost' = rl_lost \o Removed(rl_tmp, newer_tmps)
    /\ newer_tmps' = Min2(newer_tmps, MAX_RUN_LOGS - 1) + 1
    /\ UNCHANGED <<rl_final, rl_state, rl_sessions, rl_closes, rl_logged, newer_logs>>

\* close (lines 217-224) on an open logger: flush, fsync, close,
\* os.replace(tmp_path, path), then retention.
RunLoggerClose ==
    /\ rl_state = "open"
    /\ LET published == RunFile(TRUE, rl_tmp.lines)
       IN /\ rl_final' = Retained(published, newer_logs)
          /\ rl_lost' = rl_lost \o Removed(published, newer_logs)
    /\ rl_tmp' = NoRunFile
    /\ rl_state' = "closed"
    /\ rl_closes' = rl_closes + 1
    /\ UNCHANGED <<rl_sessions, rl_logged, newer_tmps, newer_logs>>

\* close on a closed logger: self._file.closed is true, nothing is done.
RunLoggerCloseAgain ==
    /\ rl_state = "closed"
    /\ rl_closes < 2
    /\ rl_closes' = rl_closes + 1
    /\ UNCHANGED <<rl_tmp, rl_final, rl_state, rl_sessions, rl_logged, rl_lost,
                   newer_tmps, newer_logs>>

RunLoggerIdle ==
    /\ rl_tmp = NoRunFile
    /\ rl_final = NoRunFile
    /\ rl_state = "idle"
    /\ rl_sessions = 0
    /\ rl_closes = 0
    /\ rl_logged = <<>>
    /\ rl_lost = <<>>
    /\ newer_tmps = 0
    /\ newer_logs = 0

(***************************************************************************)
(* Idle values of the other subsystems' variables                          *)
(***************************************************************************)
DslIdle ==
    /\ dsl_input = NoPatch
    /\ dsl_patch = NoPatch
    /\ dsl_pc = "idle"
    /\ dsl_result = "none"

KerIdle ==
    /\ zones = <<>>
    /\ patch = NoPatchDict
    /\ run_pc = "idle"
    /\ run_error = NoError
    /\ run_limits = NoRunLimits
    /\ executed = 0
    /\ invoked = 0
    /\ limits = LimitManagerInit
    /\ kernel_log = <<>>
    /\ attempt = 0

(***************************************************************************)
(* Specifications                                                          *)
(***************************************************************************)
\* The selector: every input of select, then the call.
SelInit == InitSelect /\ DslIdle /\ KerIdle /\ LogIdle /\ MetaIdle /\ OrchIdle /\ ReplayIdle /\ SandboxIdle /\ RunLoggerIdle
SelNext == Select /\ UNCHANGED <<dslVars, kerVars, logVars, metaVars, orchVars, replayVars, sbVars, rlVars>>
SpecSelect == SelInit /\ [][SelNext]_vars

\* The dominance relation over every triple of objective vectors.
DomInit == InitDominates /\ DslIdle /\ KerIdle /\ LogIdle /\ MetaIdle /\ OrchIdle /\ ReplayIdle /\ SandboxIdle /\ RunLoggerIdle
DomNext == Dominance /\ UNCHANGED <<dslVars, kerVars, logVars, metaVars, orchVars, replayVars, sbVars, rlVars>>
SpecDominates == DomInit /\ [][DomNext]_vars

\* The DSL: a Patch built from a dict or directly, then validated.
DslInit == SelIdle /\ InitDsl /\ KerIdle /\ LogIdle /\ MetaIdle /\ OrchIdle /\ ReplayIdle /\ SandboxIdle /\ RunLoggerIdle
DslNext == (FromDict \/ Construct \/ Validate) /\ UNCHANGED <<selVars, kerVars, logVars, metaVars, orchVars, replayVars, sbVars, rlVars>>
SpecDsl == DslInit /\ [][DslNext]_vars

\* The kernel: one call of run_variant on every patch of the three input
\* families.
KerInit == SelIdle /\ DslIdle /\ InitKernel /\ LogIdle /\ MetaIdle /\ OrchIdle /\ ReplayIdle /\ SandboxIdle /\ RunLoggerIdle
KerNext == (RunVariantCall \/ RunVariantStep) /\ UNCHANGED <<selVars, dslVars, logVars, metaVars, orchVars, replayVars, sbVars, rlVars>>
SpecKernel == KerInit /\ [][KerNext]_vars

\* The kernel called several times in one process.
AttemptsInit == SelIdle /\ DslIdle /\ InitAttempts /\ LogIdle /\ MetaIdle /\ OrchIdle /\ ReplayIdle /\ SandboxIdle /\ RunLoggerIdle
AttemptsNext == (RunVariantCall \/ RunVariantStep \/ NextAttempt) /\ UNCHANGED <<selVars, dslVars, logVars, metaVars, orchVars, replayVars, sbVars, rlVars>>
SpecAttempts == AttemptsInit /\ [][AttemptsNext]_vars

\* The audit logger: instances opened one after another on one file, and
\* one change made to the file behind their back.
LogInit == SelIdle /\ DslIdle /\ KerIdle /\ InitLogger /\ MetaIdle /\ OrchIdle /\ ReplayIdle /\ SandboxIdle /\ RunLoggerIdle
LogNext ==
    /\ \/ \E i \in 1..MaxLoggers : LoggerOpen(i)
       \/ \E i \in 1..MaxLoggers : LoggerLog(i)
       \/ \E i \in 1..MaxLoggers : LoggerStop(i)
       \/ RemoveLines
       \/ EditLine
    /\ UNCHANGED <<selVars, dslVars, kerVars, metaVars, orchVars, replayVars, sbVars, rlVars>>
SpecLogger == LogInit /\ [][LogNext]_vars

\* The audit logger with several instances open on the same file at once,
\* their open and log calls interleaved in every order.
SharedLogNext ==
    /\ \/ \E i \in 1..MaxLoggers : LoggerOpenShared(i)
       \/ \E i \in 1..MaxLoggers : LoggerLog(i)
       \/ \E i \in 1..MaxLoggers : LoggerStop(i)
    /\ UNCHANGED <<selVars, dslVars, kerVars, metaVars, orchVars, replayVars, sbVars, rlVars>>
SpecSharedLog == LogInit /\ [][SharedLogNext]_vars

\* The meta policy: one validate or propose_mutation call on every spec.
MetaInit == SelIdle /\ DslIdle /\ KerIdle /\ LogIdle /\ InitMeta /\ OrchIdle /\ ReplayIdle /\ SandboxIdle /\ RunLoggerIdle
MetaNext ==
    (Meta_validate \/ Meta_propose_mutation)
        /\ UNCHANGED <<selVars, dslVars, kerVars, logVars, orchVars, replayVars, sbVars, rlVars>>
SpecMeta == MetaInit /\ [][MetaNext]_vars

\* The orchestrator: one run for every generation count, adoption interval
\* and initial policy.
OrchInit == SelIdle /\ DslIdle /\ KerIdle /\ LogIdle /\ MetaIdle /\ InitOrchestrator /\ ReplayIdle /\ SandboxIdle /\ RunLoggerIdle
OrchNext ==
    (RunGeneration \/ RunReturn)
        /\ UNCHANGED <<selVars, dslVars, kerVars, logVars, metaVars, replayVars, sbVars, rlVars>>
SpecOrchestrator == OrchInit /\ [][OrchNext]_vars

\* The replay: one call of replay_snapshots on every directory and k.
ReplayInit == SelIdle /\ DslIdle /\ KerIdle /\ LogIdle /\ MetaIdle /\ OrchIdle /\ InitReplay /\ SandboxIdle /\ RunLoggerIdle
ReplayNext ==
    (ReplayStep \/ ReplayReturn)
        /\ UNCHANGED <<selVars, dslVars, kerVars, logVars, metaVars, orchVars, sbVars, rlVars>>
SpecReplay == ReplayInit /\ [][ReplayNext]_vars

\* The sandbox: one call of run, the parent and the child interleaved.
SandboxInit == SelIdle /\ DslIdle /\ KerIdle /\ LogIdle /\ MetaIdle /\ OrchIdle /\ ReplayIdle /\ InitSandbox /\ RunLoggerIdle
SandboxNext ==
    /\ \/ SandboxValidate
       \/ ProcStart
       \/ ChildPut
       \/ ChildKilledByOs
       \/ FeederWrite
       \/ ChildExit
       \/ JoinReturns
       \/ JoinTimesOut
       \/ ProcTerminate
       \/ ChildTerminated
       \/ ReapAndRaise
       \/ TakeResult
    /\ UNCHANGED <<selVars, dslVars, kerVars, logVars, metaVars, orchVars, replayVars, rlVars>>
SpecSandbox == SandboxInit /\ [][SandboxNext]_vars

\* The run logger: one run over at most two sessions, the first of which
\* may die, among other runs that share the directory.
RunLoggerInit == SelIdle /\ DslIdle /\ KerIdle /\ LogIdle /\ MetaIdle /\ OrchIdle /\ ReplayIdle /\ SandboxIdle /\ InitRunLogger
RunLoggerNext ==
    /\ \/ RunLoggerNew
       \/ RunLoggerLog
       \/ RunLoggerCrash
       \/ OtherRunCompletes
       \/ OtherRunCrashes
       \/ RunLoggerClose
       \/ RunLoggerCloseAgain
    /\ UNCHANGED <<selVars, dslVars, kerVars, logVars, metaVars, orchVars, replayVars, sbVars>>
SpecRunLogger == RunLoggerInit /\ [][RunLoggerNext]_vars

(***************************************************************************)
(* Claims about the selector                                               *)
(***************************************************************************)
\* What the claims mean by a candidate passing its thresholds: no gate of
\* its thresholds map is false.
AllGatesTrue(c) == \A k \in DOMAIN c.thresholds : c.thresholds[k] = TRUE

\* The objects handed to select: the candidates and, if given, the elite.
PoolOf(cands, prev) == cands \o (IF IsNone(prev) THEN <<>> ELSE <<prev>>)

Member(pool, id) == CHOOSE c \in Range(pool) : c.id = id

RejectionReasons == {"failed thresholds", "dominated by accepted patch", "crowded out"}

EntriesOf(log, kind, id) ==
    {i \in 1..Len(log) : log[i].kind = kind /\ log[i].who = id}

\* C1: select returns at most one winner, logs exactly one "Accepted"
\* record when it returns one (none when it returns None), and logs every
\* other object of the pool, a non-winning elite included, exactly once as
\* "Rejected" with one of the three reasons.
C1_EveryFateLoggedOnce ==
    sel_pc = "done" =>
        LET pool == PoolOf(candidates, prev_best)
            accepted == {i \in 1..Len(sel_log) : sel_log[i].kind = "Accepted"}
        IN /\ chosen = NONE_ID => accepted = {}
           /\ chosen # NONE_ID =>
                /\ chosen \in Ids(pool)
                /\ Cardinality(accepted) = 1
                /\ \A i \in accepted : sel_log[i].who = chosen
                /\ EntriesOf(sel_log, "Rejected", chosen) = {}
           /\ \A id \in Ids(pool) \ {chosen} :
                /\ Cardinality(EntriesOf(sel_log, "Rejected", id)) = 1
                /\ \A i \in EntriesOf(sel_log, "Rejected", id) :
                       sel_log[i].reason \in RejectionReasons
           /\ Len(sel_log) = Len(pool)

\* C1's case: a winner from the candidates, with a rejected elite and all
\* three rejection reasons in one log.
C1_Witness ==
    /\ sel_pc = "done"
    /\ chosen \notin {NONE_ID, ELITE_ID}
    /\ ~IsNone(prev_best)
    /\ \A r \in RejectionReasons : \E i \in 1..Len(sel_log) : sel_log[i].reason = r

\* C2: given an elite, select returns it iff it passes all its thresholds
\* and no threshold-passing candidate dominates it; when some
\* threshold-passing candidate dominates it, another candidate is returned.
C2_EliteRetainedIffUndominated ==
    (sel_pc = "done" /\ ~IsNone(prev_best)) =>
        LET dominated == \E i \in 1..Len(candidates) :
                            /\ AllGatesTrue(candidates[i])
                            /\ dominates(candidates[i], prev_best)
        IN /\ chosen = ELITE_ID <=> (AllGatesTrue(prev_best) /\ ~dominated)
           /\ dominated => chosen \in Ids(candidates)

\* C2's case: the elite is retained against threshold-passing candidates,
\* none of which dominates it.
C2_Witness ==
    /\ sel_pc = "done"
    /\ chosen = ELITE_ID
    /\ ~IsNone(prev_best)
    /\ \E i \in 1..Len(candidates) :
          AllGatesTrue(candidates[i]) /\ ~dominates(prev_best, candidates[i])

\* C3: the returned candidate passes every threshold and no
\* threshold-passing object of the pool dominates it.
C3_WinnerFeasibleAndNonDominated ==
    (sel_pc = "done" /\ chosen # NONE_ID) =>
        LET pool == PoolOf(candidates, prev_best)
            winner == Member(pool, chosen)
        IN /\ AllGatesTrue(winner)
           /\ \A i \in 1..Len(pool) :
                 AllGatesTrue(pool[i]) => ~dominates(pool[i], winner)

\* C3's case: an object with a false threshold dominates the winner and is
\* still not returned.
C3_Witness ==
    /\ sel_pc = "done"
    /\ chosen # NONE_ID
    /\ LET pool == PoolOf(candidates, prev_best)
       IN \E i \in 1..Len(pool) :
             /\ ~AllGatesTrue(pool[i])
             /\ dominates(pool[i], Member(pool, chosen))

\* C4: dominance is a strict partial order: it is asymmetric, irreflexive
\* and transitive on every triple of objective vectors.
C4_DominanceStrictPartialOrder ==
    sel_pc = "compared" =>
        \A i, j, k \in 1..3 :
            /\ ~(dom_matrix[i][j] /\ dom_matrix[j][i])
            /\ ~dom_matrix[i][i]
            /\ (dom_matrix[i][j] /\ dom_matrix[j][k]) => dom_matrix[i][k]

\* C4's case: a chain a dominates b dominates c over distinct vectors.
C4_Witness ==
    /\ sel_pc = "compared"
    /\ dom_matrix[1][2]
    /\ dom_matrix[2][3]
    /\ dom_matrix[1][3]

\* The members of the first front that carry the largest crowding
\* distance, as positions of the pool (feasible candidates, then elite).
TopOfFirstFront(population) ==
    LET front == fast_non_dominated_sort(population)[1]
        cd == crowding_distance(front).distance
    IN {i \in 1..Len(population) :
           /\ population[i].id \in Ids(front)
           /\ \A id \in Ids(front) : ~DistLess(cd[population[i].id], cd[id])}

\* C5: outside the elite short-circuit the winner is a first-front member
\* with the largest crowding distance, and among several such members the
\* one that comes first in pool order.
C5_TieBrokenByPoolOrder ==
    LET feasible == Feasible(candidates)
        elite == EliteOf(prev_best)
        population == feasible \o (IF ~IsNone(elite) THEN <<elite>> ELSE <<>>)
    IN (sel_pc = "done" /\ chosen # NONE_ID /\ ~RetainsElite(feasible, elite)) =>
          LET top == TopOfFirstFront(population)
              first == CHOOSE i \in top : \A j \in top : i <= j
          IN chosen = population[first].id

(***************************************************************************)
(* Claims about the patch DSL                                              *)
(***************************************************************************)
\* C6: validate fails iff theta_diff > 10, or purity is false, or
\* cyclomatic > 10, or some op name of the patch is unknown; a Patch holding
\* an operation outside the fixed operator set does not validate.
C6_ValidateFailsIffAnyRuleBroken ==
    dsl_pc = "validated" =>
        (dsl_result # "ok" <=>
            \/ dsl_patch.theta_diff > 10
            \/ dsl_patch.purity = FALSE
            \/ dsl_patch.cyclomatic > 10
            \/ \E i \in 1..Len(dsl_patch.ops) : dsl_patch.ops[i] \notin OPERATOR_NAMES)

(***************************************************************************)
(* Claims about the verifier and the kernel                                *)
(***************************************************************************)
\* verify_patch has run on the patch.
Verified == run_pc # "call"

\* verify_patch returned without raising.
Admitted == Verified /\ run_error.kind # "VerificationError"

RejectedWith(reason) == Verified /\ run_error = Raised("VerificationError", reason)

MatchingZones == {i \in 1..Len(zones) :
                    /\ zones[i].file = patch.target.file
                    /\ zones[i].function = patch.target.function}

OpNames == {Get(patch.ops[i], "op").s[1] : i \in 1..Len(patch.ops)}

\* C7: a patch passes the admission check only if exactly one zone matches
\* its target (file, function) and every operator name it uses is in that
\* zone's own operator list.
C7_AdmittedOnlyWithinItsZone ==
    Admitted =>
        /\ Cardinality(MatchingZones) = 1
        /\ \A i \in MatchingZones : OpNames \subseteq Range(zones[i].operators)

\* C8 as stated: a patch whose target matches no zone is rejected with
\* "target not whitelisted" whatever its ops list holds, malformed items
\* included.
C8_TargetReasonWhateverTheOps ==
    (Verified /\ MatchingZones = {}) => RejectedWith("target not whitelisted")

\* C8, amended: a patch whose target matches no zone and whose ops items
\* are all objects holding "op" is rejected with "target not whitelisted",
\* whatever the operator names, an empty list or out-of-bounds operations;
\* a patch with a malformed ops item is rejected with the schema's reason.
C8_TargetReasonForWellFormedOps ==
    (Verified /\ MatchingZones = {}) =>
        IF ValidateOpsItems(patch.ops) = "ok"
        THEN RejectedWith("target not whitelisted")
        ELSE RejectedWith(ValidateOpsItems(patch.ops))

\* A patch outside every zone with an unknown operator and an out-of-bounds
\* CONST_TUNE, rejected for its target.
C8_Witness ==
    /\ zones # <<>>
    /\ MatchingZones = {}
    /\ patch.ops = <<OpDict("BAD_OP", <<>>), ConstTune(50, 0 - 1, 1)>>
    /\ RejectedWith("target not whitelisted")

\* The limits a patch declares are within the constitutional constants.
DeclaredWithinCeilings(lim) ==
    /\ lim.diff_max # Absent => lim.diff_max[1] <= DIFF_LIMIT
    /\ lim.ops # Absent => lim.ops[1] <= OPS_LIMIT
    /\ lim.cpu # Absent => lim.cpu[1] <= CPU_LIMIT
    /\ lim.time_max # Absent => lim.time_max[1] <= CPU_LIMIT
    /\ lim.ram # Absent => lim.ram[1] <= RAM_LIMIT

\* The memory ceiling of an attempt: the check of run_variant when the
\* patch declares ram, and the tracker's check in tick.
RamCeiling ==
    IF run_limits.ram = Absent THEN limits.mem_limit
    ELSE Min2(run_limits.ram[1], limits.mem_limit)

\* C9: no patch declaring diff_max > 12, ops > 1000, cpu or time_max > 1.0 s
\* or ram > 1 GiB passes verify_patch, so no operator of such a patch is
\* executed, and an attempt that executes an operator runs under op-count,
\* time and memory ceilings no looser than the constants.
C9_LimitsWithinCeilings ==
    /\ Admitted => DeclaredWithinCeilings(patch.limits)
    /\ invoked > 0 =>
          /\ DeclaredWithinCeilings(patch.limits)
          /\ run_limits.ops <= OPS_LIMIT
          /\ run_limits.cpu <= CPU_LIMIT
          /\ RamCeiling <= RAM_LIMIT

\* A patch declaring one operation more than OPS_LIMIT, every other limit
\* at its ceiling, rejected before any operator ran.
C9_Witness ==
    /\ patch.limits = Limits(Some(DIFF_LIMIT), Some(OPS_LIMIT + 1), Absent,
                             Some(CPU_LIMIT), Some(CPU_LIMIT), Some(RAM_LIMIT))
    /\ RejectedWith("ops exceeds limit")
    /\ invoked = 0

\* A forbidden import text occurs in a string reachable from the value.
RECURSIVE HasForbiddenImport(_)
HasForbiddenImport(value) ==
    IF value.t = "str" THEN ForbiddenImportSearch(Lower(value.s))
    ELSE IF value.t = "dict"
         THEN \E i \in 1..Len(value.items) : HasForbiddenImport(value.items[i].v)
    ELSE IF value.t = "list"
         THEN \E i \in 1..Len(value.elems) : HasForbiddenImport(value.elems[i])
    ELSE FALSE

\* The checks of verify_patch that precede the scanner pass.
ReachesScanner ==
    /\ ValidateSchema(patch) = "ok"
    /\ MatchingZones # {}
    /\ patch.ops # <<>>
    /\ CheckOps(patch.ops) = "ok"

\* C10: a patch that reaches the scanner is rejected with "forbidden import
\* detected" whenever a forbidden import text occurs in any string reachable
\* from one of its operations: a direct field, a value in a nested mapping,
\* an element of a list, a list nested in a list.
C10_EveryStringScanned ==
    (/\ Verified
     /\ ReachesScanner
     /\ \E i \in 1..Len(patch.ops) : HasForbiddenImport(patch.ops[i]))
        => RejectedWith("forbidden import detected")

\* run_variant raised the runtime failure `reason`.
FailedWith(reason) == run_pc = "raised" /\ run_error = Raised("RuntimeError", reason)

\* C11: run_variant on a patch that passes verification and holds no more
\* operations than its op limit does not fail with the op-count failure: it
\* executes every operation and returns "validated", the "start" record
\* logged first and the "success" record last.
C11_WithinLimitsIsValidated ==
    (Admitted /\ Len(patch.ops) <= run_limits.ops) =>
        /\ ~FailedWith("operation count exceeded")
        /\ run_pc = "returned" =>
              /\ executed = Len(patch.ops)
              /\ Head(kernel_log) = LogEvent("start", "")
              /\ kernel_log[Len(kernel_log)] = LogEvent("success", "")

\* C12: a patch whose op limit is n and which holds more than n operations
\* fails with the op-count failure only after n operations were invoked and
\* passed their tick, and operation n+1 is never invoked.
C12_OpLimitAfterNOperations ==
    (Admitted /\ Len(patch.ops) > run_limits.ops) =>
        /\ invoked <= run_limits.ops
        /\ FailedWith("operation count exceeded") =>
              executed = run_limits.ops /\ invoked = run_limits.ops

\* The audit record that names a failure of run_variant.
AuditRecordOf(error) ==
    IF error.kind = "VerificationError" THEN LogEvent("error", error.reason)
    ELSE IF error.reason = "operation count exceeded" THEN LogEvent("error", "op_limit")
    ELSE IF error.reason = "CPU time limit exceeded" THEN LogEvent("error", "cpu_limit")
    ELSE LogEvent("error", "ram_limit")

\* C13: run_variant propagates no failure, verification rejection or runtime
\* quota failure, without having appended the audit record that names it as
\* the last record of the log.
C13_FailureLoggedBeforePropagating ==
    run_pc = "raised" =>
        /\ kernel_log # <<>>
        /\ kernel_log[Len(kernel_log)] = AuditRecordOf(run_error)

(***************************************************************************)
(* Claims about the audit logger                                           *)
(***************************************************************************)
\* Recomputing the chain forward from the sentinel: line i is an entry, its
\* prev is the hash stored on the line before it (the sentinel for the
\* first line) and its hash is the digest of its canonical record and prev.
LineVerifies(lines, i) ==
    /\ lines[i].kind = "entry"
    /\ lines[i].prev = (IF i = 1 THEN ZERO_HASH ELSE lines[i - 1].hash)
    /\ lines[i].hash = Sha256(Canonical(lines[i].record), lines[i].prev)

\* The first line at which the recomputation finds a mismatch, 0 if none.
FirstMismatch(lines) ==
    LET bad == {i \in 1..Len(lines) : ~LineVerifies(lines, i)}
    IN IF bad = {} THEN 0 ELSE CHOOSE i \in bad : \A j \in bad : i <= j

\* The lines the loggers wrote: the file without the unusable line it may
\* have held before the first logger was opened.
WrittenLines ==
    IF audit_file.lines # <<>> /\ audit_file.lines[1].kind # "entry"
    THEN Tail(audit_file.lines) ELSE audit_file.lines

\* C14: the lines written by logger instances opened one after another on
\* the same file form a single hash chain rooted at the zero sentinel, also
\* when the file was missing, empty or unparsable at first, and the
\* instance that is writing holds the hash of the last line.
C14_SequentialLoggersKeepOneChain ==
    tamper = NoTamper =>
        /\ FirstMismatch(WrittenLines) = 0
        /\ \A i \in DOMAIN loggers :
              loggers[i].state = "open" =>
                 loggers[i].prev_hash =
                    (IF WrittenLines = <<>> THEN ZERO_HASH
                     ELSE WrittenLines[Len(WrittenLines)].hash)

\* Two instances wrote to the same file, the second resuming the chain of
\* the first; one record was logged with its keys out of order.
C14_Witness ==
    /\ tamper = NoTamper
    /\ \A i \in DOMAIN loggers : loggers[i].written >= 1
    /\ Len(audit_file.lines) = MaxLines
    /\ WrittenByLogger(audit_file.lines)
    /\ \E i \in 1..Len(audit_file.lines) :
          audit_file.lines[i].record # Canonical(audit_file.lines[i].record)
    /\ FirstMismatch(audit_file.lines) = 0

\* C15: after lines were removed from a log written by the logger, trailing
\* lines included, or the record fields of a line were changed, recomputing
\* the chain finds a mismatch at or after the changed position.
C15_TamperBreaksChain ==
    tamper # NoTamper =>
        /\ FirstMismatch(audit_file.lines) # 0
        /\ FirstMismatch(audit_file.lines) >= tamper.pos

(***************************************************************************)
(* Claims about the meta policy                                            *)
(***************************************************************************)
WeightsBroken(spec) ==
    \/ spec.weights.keys = <<>>
    \/ \E i \in 1..Len(spec.weights.nums) :
          spec.weights.nums[i] < 0 \/ spec.weights.nums[i] > spec.weights.den
    \/ SumOffOne(spec.weights)
UnknownOperator(spec) ==
    \E i \in 1..Len(spec.operator_mix.keys) : spec.operator_mix.keys[i] \notin OPERATOR_NAMES
MixBroken(spec) ==
    \/ spec.operator_mix.keys = <<>>
    \/ \E i \in 1..Len(spec.operator_mix.nums) : spec.operator_mix.nums[i] < 0
    \/ SumOffOne(spec.operator_mix)
CapBroken(spec) == spec.population_cap <= 0 \/ spec.population_cap > MAX_POPULATION_CAP
StrategyBroken(spec) == spec.selection_strategy # "elitism"
DiffMaxBroken(spec) == spec.diff_max > DIFF_LIMIT
ForbiddenBroken(spec) == spec.forbidden # <<>>

\* The rule a failure message reports.
RuleOf(message) ==
    CASE message \in {"Weights must be provided",
                      "Weights must be within [0,1] and sum to 1"} -> "weights"
      [] message = "Unknown operator in mix" -> "unknown_operator"
      [] message \in {"Operator mix must be provided",
                      "Operator mix must be non-negative and sum to 1"} -> "operator_mix"
      [] message = "Population cap exceeds constitutional limit" -> "population_cap"
      [] message = "Unknown selection strategy" -> "selection_strategy"
      [] message = "diff_max exceeds constitutional limit" -> "diff_max"
      [] message = "Cannot relax constitutional forbiddens" -> "forbidden"
      [] OTHER -> "ok"

\* C16 as stated: validate fails iff one of six rules is violated and
\* reports the first violated one in the order weights, unknown operator,
\* population_cap, selection strategy, diff_max, forbidden.
C16_FirstOfSixRules ==
    meta_pc = "validated" =>
        RuleOf(meta_result) =
           (IF WeightsBroken(meta_spec) THEN "weights"
            ELSE IF UnknownOperator(meta_spec) THEN "unknown_operator"
            ELSE IF CapBroken(meta_spec) THEN "population_cap"
            ELSE IF StrategyBroken(meta_spec) THEN "selection_strategy"
            ELSE IF DiffMaxBroken(meta_spec) THEN "diff_max"
            ELSE IF ForbiddenBroken(meta_spec) THEN "forbidden"
            ELSE "ok")

\* C16, amended: validate fails iff a rule is violated and reports the first
\* violated one in the order weights (missing, out of [0,1], not summing to
\* 1), operator mix (missing, then unknown operator, then negative or not
\* summing to 1), population_cap, selection strategy, diff_max, forbidden.
C16_FirstViolatedRule ==
    meta_pc = "validated" =>
        meta_result =
           (IF meta_spec.weights.keys = <<>> THEN "Weights must be provided"
            ELSE IF WeightsBroken(meta_spec)
                 THEN "Weights must be within [0,1] and sum to 1"
            ELSE IF meta_spec.operator_mix.keys = <<>> THEN "Operator mix must be provided"
            ELSE IF UnknownOperator(meta_spec) THEN "Unknown operator in mix"
            ELSE IF MixBroken(meta_spec)
                 THEN "Operator mix must be non-negative and sum to 1"
            ELSE IF CapBroken(meta_spec) THEN "Population cap exceeds constitutional limit"
            ELSE IF StrategyBroken(meta_spec) THEN "Unknown selection strategy"
            ELSE IF DiffMaxBroken(meta_spec) THEN "diff_max exceeds constitutional limit"
            ELSE IF ForbiddenBroken(meta_spec) THEN "Cannot relax constitutional forbiddens"
            ELSE "ok")

\* A spec that breaks the population_cap, strategy, diff_max and forbidden
\* rules at once is reported for its population_cap.
C16_Witness ==
    /\ meta_pc = "validated"
    /\ ~WeightsBroken(meta_spec) /\ ~UnknownOperator(meta_spec) /\ ~MixBroken(meta_spec)
    /\ CapBroken(meta_spec) /\ StrategyBroken(meta_spec)
    /\ DiffMaxBroken(meta_spec) /\ ForbiddenBroken(meta_spec)
    /\ meta_result = "Population cap exceeds constitutional limit"

\* Non-negative values that sum to 1 within the tolerance.
IsDistribution(d) ==
    /\ \A i \in 1..Len(d.nums) : d.nums[i] >= 0
    /\ ~SumOffOne(d)

\* C17: for every valid MetaSpec and every random draw, propose_mutation
\* returns a spec that passes validate: weights and operator_mix are each
\* non-negative and sum to 1, population_cap lies in [1, MAX_POPULATION_CAP]
\* and differs from the input's by at most 1.
C17_ProposalOfValidSpecIsValid ==
    (meta_pc = "proposed" /\ MetaValidate(meta_spec) = "ok") =>
        /\ meta_result = "ok"
        /\ MetaValidate(meta_proposal) = "ok"
        /\ IsDistribution(meta_proposal.weights)
        /\ IsDistribution(meta_proposal.operator_mix)
        /\ meta_proposal.population_cap \in 1..MAX_POPULATION_CAP
        /\ Abs(meta_proposal.population_cap - meta_spec.population_cap) <= 1

\* A valid spec at the population ceiling whose weights collapsed to all
\* zero under the draw: the proposal is uniform and stays at the ceiling.
C17_Witness ==
    /\ meta_pc = "proposed"
    /\ MetaValidate(meta_spec) = "ok"
    /\ meta_spec.population_cap = MAX_POPULATION_CAP
    /\ meta_spec.weights = Dist(Needs, <<1, 0>>, 1)
    /\ meta_proposal.weights = Dist(Needs, <<1, 1>>, 2)
    /\ meta_proposal.population_cap = MAX_POPULATION_CAP
    /\ meta_result = "ok"

(***************************************************************************)
(* Claims about the orchestrator                                           *)
(***************************************************************************)
\* The policy in force during generation g (the one its snapshot holds),
\* followed by the policy in force after the last generation entered.
PolicySeq ==
    [g \in 1..(Len(snapshots) + 1) |->
        IF g <= Len(snapshots) THEN snapshots[g].meta ELSE meta]

ChangesOnlyAtMultiples ==
    \A g \in 1..Len(snapshots) :
        PolicySeq[g + 1] # PolicySeq[g] => g % adopt_every = 0

\* Of the proposals propose_mutation returned.
ReplacedIffCapNotLower ==
    \A i \in DOMAIN proposals :
        LET p == proposals[i]
            notLower == p.proposed.population_cap >= p.current.population_cap
        IN p.outcome # "raised" =>
             /\ (p.outcome = "adopted") <=> notLower
             /\ (PolicySeq[p.generation + 1] = p.proposed) <=> notLower
             /\ ~notLower => PolicySeq[p.generation + 1] = p.current

CapNeverDecreases ==
    \A g \in 1..Len(snapshots) :
        PolicySeq[g + 1].population_cap >= PolicySeq[g].population_cap

\* Of the generations entered: the policy each ran under and the one in
\* force after it.
CapWithinCeiling ==
    \A g \in 1..Len(snapshots) :
        /\ PolicySeq[g].population_cap <= MAX_POPULATION_CAP
        /\ PolicySeq[g + 1].population_cap <= MAX_POPULATION_CAP

OutcomeAt(outcome) == {i \in DOMAIN proposals : proposals[i].outcome = outcome}

\* C18, as stated: during a run the policy in force changes only at
\* generations that are multiples of adopt_every, a proposal replaces the
\* current policy iff its population_cap is not lower, the population_cap in
\* force never decreases and never exceeds MAX_POPULATION_CAP, whatever
\* policy the run was given.
C18_CapMonotoneAndBounded ==
    orch_pc # "idle" =>
        /\ ChangesOnlyAtMultiples
        /\ ReplacedIffCapNotLower
        /\ CapNeverDecreases
        /\ CapWithinCeiling

\* C18, amended: the same for a run given a policy that validates; without
\* that the first three parts still hold.
C18_CapMonotoneAndBoundedFromValid ==
    orch_pc # "idle" =>
        /\ ChangesOnlyAtMultiples
        /\ ReplacedIffCapNotLower
        /\ CapNeverDecreases
        /\ MetaValidate(meta0) = "ok" => CapWithinCeiling

\* A run given a valid policy below the ceiling that returned at the
\* ceiling, after at least one adoption and one rejection.
C18_Witness ==
    /\ orch_pc = "returned"
    /\ MetaValidate(meta0) = "ok"
    /\ meta0.population_cap < MAX_POPULATION_CAP
    /\ meta.population_cap = MAX_POPULATION_CAP
    /\ OutcomeAt("adopted") # {}
    /\ OutcomeAt("rejected") # {}

SameConstitution(a, b) ==
    /\ a.selection_strategy = b.selection_strategy
    /\ a.diff_max = b.diff_max
    /\ a.forbidden = b.forbidden

\* C19: starting from a valid policy, every policy in force, the returned
\* one included, has the selection_strategy, diff_max and forbidden list of
\* the initial one, diff_max within DIFF_LIMIT and forbidden empty; and the
\* spec a proposal was derived from is the same after the call as before.
C19_ConstitutionPreserved ==
    (orch_pc # "idle" /\ MetaValidate(meta0) = "ok") =>
        /\ \A g \in DOMAIN PolicySeq :
             /\ SameConstitution(PolicySeq[g], meta0)
             /\ PolicySeq[g].diff_max <= DIFF_LIMIT
             /\ PolicySeq[g].forbidden = <<>>
        /\ \A i \in DOMAIN proposals :
             /\ proposals[i].source = proposals[i].current
             /\ SameConstitution(proposals[i].proposed, proposals[i].current)

\* A returned run from a valid policy with an adoption that changed the
\* weights and a rejection whose proposal differed from the policy kept.
C19_Witness ==
    /\ orch_pc = "returned"
    /\ MetaValidate(meta0) = "ok"
    /\ meta.weights # meta0.weights
    /\ OutcomeAt("adopted") # {}
    /\ \E i \in OutcomeAt("rejected") :
         proposals[i].proposed.weights # proposals[i].current.weights

\* C20: when validating a proposed policy raises a MetaSpec violation, the
\* run is not aborted: the current policy is kept, the outcome is logged for
\* that generation, and the remaining generations are run.
C20_ViolationFatalOnlyToProposal ==
    \A i \in OutcomeAt("raised") :
        /\ orch_pc \in {"run", "returned"}
        /\ PolicySeq[proposals[i].generation + 1] = proposals[i].current
        /\ TraceEvent("meta_rejected", proposals[i].generation) \in Range(orch_trace)

\* The effects of generation g, in the order run performed them.
EventsOf(g) == SelectSeq(orch_trace, LAMBDA e : e.generation = g)

KindsOf(g) == [i \in DOMAIN EventsOf(g) |-> EventsOf(g)[i].kind]

\* The policy in force when generation g starts: the one run was given, or
\* what the previous generation left.
PolicyBefore(g) ==
    IF g = 1 THEN meta0
    ELSE LET adopted == {i \in OutcomeAt("adopted") : proposals[i].generation = g - 1}
         IN IF adopted # {}
            THEN proposals[CHOOSE i \in adopted : TRUE].proposed
            ELSE snapshots[g - 1].meta

GenerationsInOrder ==
    \A i \in 1..(Len(orch_trace) - 1) :
        orch_trace[i].generation <= orch_trace[i + 1].generation

GenerationWellFormed(g) ==
    /\ Len(KindsOf(g)) >= 3
    /\ SubSeq(KindsOf(g), 1, 3) = <<"select", "generation", "snapshot">>
    /\ snapshots[g] = Snapshot(g, g, PolicyBefore(g))
    /\ IF g % adopt_every = 0
       THEN /\ Len(KindsOf(g)) = 4
            /\ KindsOf(g)[4] \in {"meta_adopted", "meta_rejected"}
       ELSE Len(KindsOf(g)) = 3

\* C21: a run of N generations performs, for g = 1..N in increasing order,
\* selection, one "generation" record, one snapshot for g with g history
\* entries and the policy in force before any adoption at g, then exactly
\* one of meta_adopted / meta_rejected iff g is a multiple of adopt_every;
\* and it ends only after generation N.
C21_GenerationSequence ==
    orch_pc # "idle" =>
        /\ Len(snapshots) = gen
        /\ GenerationsInOrder
        /\ \A e \in Range(orch_trace) : e.generation \in 1..gen
        /\ \A g \in 1..gen : GenerationWellFormed(g)
        /\ orch_pc # "run" => (orch_pc = "returned" /\ gen = generations)

\* The same, of the runs given a policy that validates.
C21_GenerationSequenceFromValid ==
    MetaValidate(meta0) = "ok" => C21_GenerationSequence

\* The zone registry as the verifier's load_zones returns it.
VerifierZones == [i \in DOMAIN orch_zones |->
    Zone(orch_zones[i].file, orch_zones[i].function, orch_zones[i].operators)]

\* The patch dictionary of a candidate: its target and its operations,
\* which carry the operator name only.
CandidateDict(p) ==
    PatchDict("Patch", p.target, [i \in DOMAIN p.ops |-> OpDict(p.ops[i], <<>>)],
              NoLimits)

\* C22: in every generation each candidate that receives objectives and
\* reaches the selector passes the local DSL limits and the admission
\* checks (zone whitelist, operator checks, static scan) of verify_patch.
C22_ScoredOnlyIfAdmitted ==
    \A g \in DOMAIN scored : \A i \in DOMAIN scored[g] :
        /\ validate(scored[g][i]) = "ok"
        /\ verify_patch(CandidateDict(scored[g][i]), VerifierZones) = "ok"

(***************************************************************************)
(* Claims about the snapshot replay                                        *)
(***************************************************************************)
InvalidMeta(name) == MetaValidate(snapshot_dir[name].meta) # "ok"

LastWorseThanFirst(name) ==
    LET h == snapshot_dir[name].history
    IN h # <<>> /\ (h[Len(h)].err > h[1].err \/ h[Len(h)].cost > h[1].cost)

SnapshotFails(name) == InvalidMeta(name) \/ LastWorseThanFirst(name)

ReadSet == Range(replay_read)

\* The files read are the first ones of the directory in lexicographic
\* order, k of them at most.
ReadInOrderAtMostK ==
    /\ Len(replay_read) <= replay_k
    /\ \A i, j \in DOMAIN replay_read : i < j => LexLess(replay_read[i], replay_read[j])
    /\ \A r \in ReadSet : \A n \in (DOMAIN snapshot_dir) \ ReadSet : LexLess(r, n)

\* C23: replay_snapshots reads at most k snapshots in lexicographic order
\* and fails at the first one whose MetaSpec is invalid or whose last
\* history entry has a higher err or cost than its first, with the MetaSpec
\* violation or the regression, returning no averages; it returns only when
\* none of the first k fails, and reads nothing beyond them.
C23_ReplayFailFast ==
    replay_pc # "idle" =>
        /\ ReadInOrderAtMostK
        /\ \A i \in 1..(Len(replay_read) - 1) : ~SnapshotFails(replay_read[i])
        /\ replay_pc = "loop" => \A r \in ReadSet : ~SnapshotFails(r)
        /\ replay_pc = "raised" =>
             LET at == replay_read[Len(replay_read)]
             IN /\ SnapshotFails(at)
                /\ replay_error.kind =
                     (IF InvalidMeta(at) THEN "MetaValidationError" ELSE "RuntimeError")
                /\ replay_result = NoAverages
        /\ replay_pc = "returned" =>
             /\ \A r \in ReadSet : ~SnapshotFails(r)
             /\ Len(replay_read) = Min2(replay_k, Cardinality(DOMAIN snapshot_dir))
             /\ replay_result # NoAverages

\* A replay with k = 2 over three files that read "1" (fine), failed at
\* "10" on a regression of cost alone, and never read "2", whose MetaSpec
\* is invalid.
C23_Witness ==
    /\ replay_k = 2
    /\ DOMAIN snapshot_dir = SnapNames
    /\ replay_pc = "raised"
    /\ replay_read = <<<<1>>, <<1, 0>>>>
    /\ replay_error = Raised("RuntimeError", "Regression detected")
    /\ snapshot_dir[<<1, 0>>].history = <<HistoryEntry(1, 1), HistoryEntry(0, 2)>>
    /\ InvalidMeta(<<2>>)

(***************************************************************************)
(* Claims about the process sandbox                                        *)
(***************************************************************************)
ChildAlive == child_pc \notin {"none", "dead"}

\* C24: a child still alive when the wall-clock timeout elapses is
\* terminated and reaped before run raises the timeout failure, and on
\* every exit path of run (return, exception re-raised, timeout, rejected
\* code) no child is left alive or uncollected.
C24_NoChildLeftAlive ==
    /\ sb_pc = "done" => (~ChildAlive /\ (child_pc = "dead" => reaped))
    /\ sb_outcome = Outcome("raise", "TimeoutError") =>
         (child_end = "terminated" /\ reaped)
    /\ (sb_pc = "done" /\ child_end = "terminated") =>
         sb_outcome = Outcome("raise", "TimeoutError")

\* A run of code that never ends: the child was terminated, collected, and
\* the timeout raised.
C24_Witness ==
    /\ sb_pc = "done"
    /\ sb_code.cpu = Forever
    /\ sb_timeout = 5
    /\ child_end = "terminated"
    /\ reaped
    /\ sb_outcome = Outcome("raise", "TimeoutError")

\* C28: a child that finishes computing its result or its exception before
\* the timeout gets to exit, and the parent receives that result, whatever
\* its size; the wait for the child's exit never becomes a timeout.
C28_FinishedResultReceived ==
    (sb_pc = "done" /\ sb_code.allowed /\ Fate(sb_code, sb_timeout) = "finishes") =>
        /\ child_end = "exited"
        /\ sb_outcome = (IF sb_code.ends = "exception"
                         THEN Outcome("raise", "exception of the code")
                         ELSE Outcome("return", "result"))

\* C29: run returns a value only when the child ran the code to completion
\* without an error; an exception in the code, the timeout, or the kernel
\* ending the child at a resource ceiling gives the caller a failure.
C29_ReturnOnlyAfterCompletion ==
    sb_outcome.kind = "return" =>
        /\ child_end = "exited"
        /\ Fate(sb_code, sb_timeout) = "finishes"
        /\ sb_code.ends = "value"

(***************************************************************************)
(* Claims about the run logger                                             *)
(***************************************************************************)
\* While a session is open the temporary file holds every record logged so
\* far (the session after a crash has resumed the file of the first), and
\* no final file exists yet.
OpenSessionAppendsToTmp ==
    rl_state \in {"open", "crashed"} =>
        /\ rl_tmp = RunFile(TRUE, rl_logged)
        /\ ~rl_final.exists

\* After close, and after a second close, one final file holds every
\* record in the order logged and no temporary file is left.
ClosedRunIsPublished ==
    rl_state = "closed" =>
        /\ rl_final = RunFile(TRUE, rl_logged)
        /\ ~rl_tmp.exists

\* C25, as stated: the log is appended to in its temporary file only, the
\* session after a crash resumes that file, and after close exactly one
\* final file holds the records of both sessions in order, with no
\* temporary file left, a second close changing nothing.
C25_ResumeAndPublish ==
    rl_state # "idle" => (OpenSessionAppendsToTmp /\ ClosedRunIsPublished)

\* C25, amended: the same as long as retention has not removed a file of
\* the run (it does when MAX_RUN_LOGS files of the same kind of other runs
\* were modified after it); and the run never has both files at once.
C25_ResumeAndPublishUnlessRotated ==
    rl_state # "idle" =>
        /\ rl_lost = <<>> => (OpenSessionAppendsToTmp /\ ClosedRunIsPublished)
        /\ ~rl_tmp.exists \/ ~rl_final.exists

\* A run whose first session logged a record and died, whose second
\* session logged another and closed twice, among other runs.
C25_Witness ==
    /\ rl_state = "closed"
    /\ rl_sessions = 2
    /\ rl_closes = 2
    /\ rl_final = RunFile(TRUE, <<1, 2>>)
    /\ ~rl_tmp.exists
    /\ rl_lost = <<>>


(***************************************************************************)
(* Claims about successive attempts of the kernel                          *)
(***************************************************************************)
\* An attempt has passed verification and entered its loop, and has not
\* yet reached an operator.
AttemptStarted == run_pc = "loop" /\ executed = 0 /\ invoked = 0

\* The tracker holds the limits of the attempt that is running.
LimitsArmed ==
    /\ limits.max_ops = run_limits.ops
    /\ run_limits.ram # Absent => limits.mem_limit = run_limits.ram[1]

\* C26: execution attempts are isolated from one another: every attempt
\* starts with an operation counter of zero and with its own op-count and
\* memory limits armed, so that nothing an earlier attempt executed or
\* failed on reaches a later attempt of the same process.
C26_AttemptsStartFresh ==
    AttemptStarted => (limits.ops = 0 /\ LimitsArmed)

\* The patch dict carries a DSL violation: it says it is impure, or its
\* cyclomatic or theta_diff value exceeds the limit.
DslViolating(p) ==
    \/ p.purity # Absent /\ p.purity[1] = FALSE
    \/ p.cyclomatic # Absent /\ p.cyclomatic[1] > CYCLOMATIC_LIMIT
    \/ p.theta_diff # Absent /\ p.theta_diff[1] > THETA_DIFF_LIMIT

\* C27: DSL violations are rejected before any whitelist or execution step
\* runs: run_variant never invokes an operator of a patch that is impure or
\* whose cyclomatic or theta_diff value exceeds 10, and it rejects such a
\* patch with the DSL failure, not with a whitelist or security failure.
C27_DslViolationsRejectedFirst ==
    (run_pc # "idle" /\ DslViolating(patch)) =>
        /\ invoked = 0
        /\ run_pc \in {"call", "raised"}
        /\ run_pc = "raised" => run_error.kind = "DSLValidationError"


(***************************************************************************)
(* Claims about logger instances sharing a file                            *)
(***************************************************************************)
\* C30: the audit log stays a single hash chain when several logger
\* instances are open on the same file at the same time: under every
\* interleaving of their open and log calls, each line's prev equals the
\* hash stored on the line immediately before it.
C30_SharedLogKeepsOneChain ==
    \A i \in 2..Len(WrittenLines) : WrittenLines[i].prev = WrittenLines[i - 1].hash

====
